---- MODULE Spec2Model ----
(***************************************************************************)
(* Model of the Elios interpreter's execution engine                       *)
(* (src/lib/interpreter.js, second class definition, lines 320-880, with   *)
(* the handlers of src/lib/utils.js lines 85-1093).                        *)
(*                                                                         *)
(* A program is a sequence of lines.  A line is a record                   *)
(*    [k |-> kind, c |-> condition form, v |-> variable name,              *)
(*     a |-> first argument text, b |-> second argument text]              *)
(* where the kind stands for the prefix the code tests with startsWith:    *)
(*    "if"  "§if[..]"      "elseif" "§elseif[..]"   "else"  "§else"        *)
(*    "endif" "§endif"     "while"  "§while[..]"    "endwhile"             *)
(*    "for" "§for[v;a;b]"  "endfor" "§endfor"                              *)
(*    "log" "§log[..]"     "var" "§var[v;a]"  "inc" "§var[v;$v+1]"         *)
(*    "break" "continue"   "exit" "§exit[a]"                               *)
(*    "text" a line without sigil    "comment" a line starting with #      *)
(* Texts are sequences of one-character strings.                           *)
(***************************************************************************)
EXTENDS Integers, Sequences, FiniteSets, TLC

VARIABLES
    phase,          \* "idle" | "running" | "done": position of execute()
    code,           \* the source handed to execute(), one element per line
    lines,          \* execute's `lines`: code without blank/comment lines
    variables,      \* this.variables: name -> text
    shouldExit,     \* this.shouldExit
    exitCode,       \* this.exitCode
    shouldBreak,    \* this.shouldBreak
    shouldContinue, \* this.shouldContinue
    stack,          \* activations of execute/processCondition/processWhile/processFor
    result,         \* value returned by execute(): "none" | "true" | "false"
    execCount,      \* per line of `lines`: handler invocations by executeLine
    condCount,      \* per line of `lines`: evaluateCondition calls for that line
    passCount,      \* per loop header line: body passes started
    errCount,       \* per loop header line: runaway-loop errors reported
    lastExec,       \* index of the line whose handler was invoked last (0: none)
    call,           \* a helper or handler called on its own: its inputs and outcome
    files,          \* the file system: path -> [exists, text]
    loadedFiles,    \* this.loadedFiles
    reads,          \* per path: readFileSync calls made by processRequires
    resolve,        \* processRequires: its activations and returned text
    plugins,        \* pluginLoader.plugins: entries [name, functions] in Map order
    functions,      \* this.functions: directive name -> the handler registered
    instances       \* the fields of several interpreters, by instance

\* the state of require resolution, of plugin loading
reqVars == <<files, loadedFiles, reads, resolve>>
plugVars == <<plugins, functions>>

\* the state outside the run loop of execute
unitVars == <<call, files, loadedFiles, reads, resolve, plugins, functions,
              instances>>

vars == <<phase, code, lines, variables, shouldExit, exitCode, shouldBreak,
          shouldContinue, stack, result, execCount, condCount, passCount,
          errCount, lastExec, call, files, loadedFiles, reads, resolve,
          plugins, functions, instances>>

----------------------------------------------------------------------------
(* Texts and numbers *)

Digits == <<"0", "1", "2", "3", "4", "5", "6", "7", "8", "9">>

IsDigit(ch) == \E d \in 1..10 : Digits[d] = ch

DigitVal(ch) == (CHOOSE d \in 1..10 : Digits[d] = ch) - 1

RECURSIVE NatStr(_)
NatStr(n) == IF n < 10 THEN <<Digits[n + 1]>>
             ELSE NatStr(n \div 10) \o <<Digits[(n % 10) + 1]>>

\* String(i) of JavaScript, for integers
String(n) == IF n < 0 THEN <<"-">> \o NatStr(-n) ELSE NatStr(n)

\* a JavaScript number: NaN or an integer
NaN == [nan |-> TRUE, n |-> 0]
Num(n) == [nan |-> FALSE, n |-> n]

RECURSIVE DigitsPrefix(_, _)
\* value of the longest run of digits at the head of s, started with acc
DigitsPrefix(s, acc) ==
    IF s = <<>> \/ ~IsDigit(Head(s)) THEN acc
    ELSE DigitsPrefix(Tail(s), acc * 10 + DigitVal(Head(s)))

\* parseFloat / parseInt on a text made of an optional sign and digits:
\* the longest numeric prefix, NaN when there is none
ParseFloat(s) ==
    LET neg  == s # <<>> /\ Head(s) = "-"
        body == IF s # <<>> /\ Head(s) \in {"-", "+"} THEN Tail(s) ELSE s
    IN  IF body = <<>> \/ ~IsDigit(Head(body)) THEN NaN
        ELSE Num(IF neg THEN 0 - DigitsPrefix(body, 0) ELSE DigitsPrefix(body, 0))

\* a text that is a whole integer literal
IsIntText(s) ==
    LET body == IF s # <<>> /\ Head(s) = "-" THEN Tail(s) ELSE s
    IN  body # <<>> /\ \A p \in 1..Len(body) : IsDigit(body[p])

----------------------------------------------------------------------------
(* Lines *)

Line(k, c, v, a, b) == [k |-> k, c |-> c, v |-> v, a |-> a, b |-> b]

If(c)        == Line("if", c, "x", String(2), <<>>)
ElseIf(c)    == Line("elseif", c, "x", String(2), <<>>)
While(c)     == Line("while", c, "x", String(2), <<>>)
WhileLt(v, n) == Line("while", "lt", v, String(n), <<>>)
For(v, s, e) == Line("for", "", v, String(s), String(e))
Else         == Line("else", "", "", <<>>, <<>>)
EndIf        == Line("endif", "", "", <<>>, <<>>)
EndWhile     == Line("endwhile", "", "", <<>>, <<>>)
EndFor       == Line("endfor", "", "", <<>>, <<>>)
Log          == Line("log", "", "", <<>>, <<>>)
Var(v, n)    == Line("var", "", v, String(n), <<>>)
Inc(v)       == Line("inc", "", v, <<>>, <<>>)
Break        == Line("break", "", "", <<>>, <<>>)
Continue     == Line("continue", "", "", <<>>, <<>>)
Exit(n)      == Line("exit", "", "", String(n), <<>>)
ExitText(t)  == Line("exit", "", "", t, <<>>)
Text         == Line("text", "", "", <<>>, <<>>)
Comment      == Line("comment", "", "", <<>>, <<>>)

\* the startsWith tests of the engine
IsIf(l)         == l.k = "if"
IsWhile(l)      == l.k = "while"
IsFor(l)        == l.k = "for"
IsEndIf(l)      == l.k = "endif"
IsEndWhile(l)   == l.k = "endwhile"
IsEndFor(l)     == l.k = "endfor"
IsElseIf(l)     == l.k = "elseif"
IsElsePrefix(l) == l.k \in {"else", "elseif"}     \* startsWith('§else')

----------------------------------------------------------------------------
(* validateCode (interpreter.js 513-576) *)

\* the block type a terminator closes
CloserType(l) == IF IsEndIf(l) THEN "if"
                 ELSE IF IsEndWhile(l) THEN "while" ELSE "for"

\* ValidateCloser without the test of the opener's type
ValidateCloserAnyType(l, idx, stk, errs) ==
    IF stk = <<>>
    THEN <<stk, Append(errs, [e |-> "Unmatched", t |-> l.k, line |-> idx])>>
    ELSE <<SubSeq(stk, 1, Len(stk) - 1), errs>>

\* the effect of one terminator on <<stack, errors>>
ValidateCloser(l, idx, stk, errs) ==
    IF stk = <<>>
    THEN <<stk, Append(errs, [e |-> "Unmatched", t |-> l.k, line |-> idx])>>
    ELSE IF stk[Len(stk)].type # CloserType(l)
         THEN <<stk, Append(errs, [e |-> "Mismatched", t |-> l.k, line |-> idx])>>
         ELSE <<SubSeq(stk, 1, Len(stk) - 1), errs>>

\* the effect of one line on <<stack, errors>>
ValidateLine(l, idx, stk, errs) ==
    IF l.k = "comment" THEN <<stk, errs>>
    ELSE IF IsIf(l) THEN <<Append(stk, [type |-> "if", line |-> idx]), errs>>
    ELSE IF IsWhile(l) THEN <<Append(stk, [type |-> "while", line |-> idx]), errs>>
    ELSE IF IsFor(l) THEN <<Append(stk, [type |-> "for", line |-> idx]), errs>>
    ELSE IF IsEndIf(l) \/ IsEndWhile(l) \/ IsEndFor(l)
         THEN ValidateCloser(l, idx, stk, errs)
    ELSE IF IsElseIf(l) \/ IsElsePrefix(l)
         THEN IF stk = <<>> \/ stk[Len(stk)].type # "if"
              THEN <<stk, Append(errs, [e |-> "Orphan", t |-> l.k, line |-> idx])>>
              ELSE <<stk, errs>>
    ELSE <<stk, errs>>

\* a final loop that reports no opener
UnclosedNone(stk, errs) == errs

RECURSIVE Unclosed(_, _)
\* the final loop: one error per opener left, popped from the top
Unclosed(stk, errs) ==
    IF stk = <<>> THEN errs
    ELSE Unclosed(SubSeq(stk, 1, Len(stk) - 1),
                  Append(errs, [e |-> "Unclosed", t |-> stk[Len(stk)].type,
                                line |-> stk[Len(stk)].line]))

RECURSIVE ValidateFrom(_, _, _, _)
ValidateFrom(src, idx, stk, errs) ==
    IF idx > Len(src) THEN Unclosed(stk, errs)
    ELSE LET r == ValidateLine(src[idx], idx, stk, errs)
         IN  ValidateFrom(src, idx + 1, r[1], r[2])

\* the list of validation errors of a source
validateCode(src) == ValidateFrom(src, 1, <<>>, <<>>)

----------------------------------------------------------------------------
(* Handlers (utils.js) *)

\* replaceVariables on the text "$v": the value when v is defined
Defined(vs, v) == v \in DOMAIN vs

\* an evaluateCondition whose catch clause gives true
evaluateConditionCaughtTrue(l, vs) ==
    CASE l.c = "true"  -> TRUE
      [] l.c = "false" -> FALSE
      [] l.c = "lt"    -> /\ Defined(vs, l.v)
                          /\ IsIntText(vs[l.v])
                          /\ ParseFloat(vs[l.v]).n < ParseFloat(l.a).n
      [] l.c = "isEven" -> TRUE
      [] OTHER         -> TRUE

\* evaluateCondition (utils.js 470-502) on the condition of line l.
\*   "true"/"false": the literals;  "lt": the text "$v < a";
\*   "isEven": the text "§isEven[2]", expanded by a call of handleIsEven
\*   (utils.js 582-598) that returns true;
\*   "bad": a text whose evaluation throws.  A throw is caught and gives false;
\*   "$v" with v undefined stays in the text and throws a ReferenceError.
evaluateCondition(l, vs) ==
    CASE l.c = "true"  -> TRUE
      [] l.c = "false" -> FALSE
      [] l.c = "lt"    -> /\ Defined(vs, l.v)
                          /\ IsIntText(vs[l.v])
                          /\ ParseFloat(vs[l.v]).n < ParseFloat(l.a).n
      [] l.c = "isEven" -> TRUE
      [] OTHER         -> FALSE

\* Map.set
MapSet(vs, name, val) ==
    [n \in DOMAIN vs \cup {name} |-> IF n = name THEN val ELSE vs[n]]

\* handleVar (utils.js 163-187) for "§var[v;a]" and "§var[v;$v+1]".  In the
\* second form replaceVariables gives "<value>+1" (or leaves "$v+1"),
\* isMathExpression holds and evaluateMathExpression strips every character
\* outside [0-9+-*/().] before eval: an undefined v leaves "+1".
handleVar(l, vs) ==
    IF l.k = "inc"
    THEN LET old == IF Defined(vs, l.v) /\ IsIntText(vs[l.v])
                    THEN ParseFloat(vs[l.v]).n ELSE 0
         IN  MapSet(vs, l.v, String(old + 1))
    ELSE MapSet(vs, l.v, l.a)

\* a handleExit that records code 0 whatever its argument
handleExitZero(l) == 0

\* handleExit (utils.js 132-143): parseInt(args) || 0
handleExit(l) == LET c == ParseFloat(l.a) IN IF c.nan THEN 0 ELSE c.n

\* the directive names of this.functions (interpreter.js 325-373) among the
\* kinds of the model; else, elseif, endif and endwhile have no entry
Registered == {"log", "var", "inc", "break", "continue", "exit",
               "while", "for", "endfor", "require", "sleep"}

\* executeLine (interpreter.js 857-877) invokes a handler
Invokes(l, exitFlag) == ~exitFlag /\ l.k \in Registered

\* processWhile / processFor reached through the registry receive the
\* argument text as `lines` and no index: lines[undefined].trim() throws,
\* the rejected promise is awaited by executeLine and execute returns false
Throws(l, exitFlag) == Invokes(l, exitFlag) /\ l.k \in {"while", "for"}

\* ExecEffect with a handleExit that does not raise shouldExit
ExecEffectNoExit(l) ==
    LET inv == Invokes(l, shouldExit)
    IN  [variables      |-> IF inv /\ l.k \in {"var", "inc"}
                            THEN handleVar(l, variables) ELSE variables,
         shouldExit     |-> shouldExit,
         exitCode       |-> IF inv /\ l.k = "exit" THEN handleExit(l) ELSE exitCode,
         shouldBreak    |-> shouldBreak \/ (inv /\ l.k = "break"),
         shouldContinue |-> shouldContinue \/ (inv /\ l.k = "continue")]

\* the effect of executeLine on the interpreter's fields, for a line whose
\* handler returns
ExecEffect(l) ==
    LET inv == Invokes(l, shouldExit)
    IN  [variables      |-> IF inv /\ l.k \in {"var", "inc"}
                            THEN handleVar(l, variables) ELSE variables,
         shouldExit     |-> shouldExit \/ (inv /\ l.k = "exit"),
         exitCode       |-> IF inv /\ l.k = "exit" THEN handleExit(l) ELSE exitCode,
         shouldBreak    |-> shouldBreak \/ (inv /\ l.k = "break"),
         shouldContinue |-> shouldContinue \/ (inv /\ l.k = "continue")]

----------------------------------------------------------------------------
(* The engine: execute, processLine, processCondition, processWhile,       *)
(* processFor (interpreter.js 406-437, 578-850).  Indices are 1-based:     *)
(* index Len(lines) + 1 is the code's lines.length.                        *)

WhileMax == 1000
ForMax == 10000

Frame(fn, mode, idx, start, end, iter, i, endv, be, v) ==
    [fn |-> fn, mode |-> mode, idx |-> idx, start |-> start, end |-> end,
     iter |-> iter, i |-> i, endv |-> endv, be |-> be, v |-> v]

Top == stack[Len(stack)]

\* lines = code.split('\n').filter(non-empty, not a comment)
RECURSIVE FilterLines(_)
FilterLines(src) ==
    IF src = <<>> THEN <<>>
    ELSE IF Head(src).k = "comment" THEN FilterLines(Tail(src))
         ELSE <<Head(src)>> \o FilterLines(Tail(src))

\* the first index >= from of a line of the given kind, 0 when there is none
FirstKind(ls, from, kind) ==
    LET S == {j \in from..Len(ls) : ls[j].k = kind}
    IN  IF S = {} THEN 0 ELSE CHOOSE j \in S : \A m \in S : j <= m

RECURSIVE SkipNested(_, _, _)
\* processCondition 682-690: step over a nested if inside an untaken branch,
\* counting depth; the loop's flag tests cannot change while it runs
SkipNested(ls, cur, depth) ==
    IF cur > Len(ls) \/ depth = 0 THEN cur
    ELSE SkipNested(ls, cur + 1,
                    IF IsIf(ls[cur]) THEN depth + 1
                    ELSE IF IsEndIf(ls[cur]) THEN depth - 1 ELSE depth)

\* processCondition 609-613: from an elseif/else of a taken if, the index
\* after the next §endif line
SkipToEndIf(ls, cur) ==
    LET j == FirstKind(ls, cur, "endif")
    IN  IF j = 0 THEN Len(ls) + 1 ELSE j + 1

\* processWhile 708-715 / processFor 784-791: the terminator of a loop
FindEnd(ls, start, kind) == FirstKind(ls, start + 1, kind)

\* a caller receives the index returned by the block it awaited
DeliverTo(stk, r) ==
    LET c == stk[Len(stk)]
    IN  [stk EXCEPT ![Len(stk)] =
            [c EXCEPT !.idx = r,
                      !.mode = IF c.fn = "for" THEN "check" ELSE c.mode]]

\* a return that leaves the index of the caller where it was
ReturnInPlace(r) == SubSeq(stack, 1, Len(stack) - 1)

\* the stack after the top activation returns r
Return(r) == DeliverTo(SubSeq(stack, 1, Len(stack) - 1), r)

SetTop(f) == [stack EXCEPT ![Len(stack)] = f]

Bump(cnt, p) == [cnt EXCEPT ![p] = @ + 1]

\* the stack after the top activation calls the block processor of line s
CallBlock(s) ==
    LET l == lines[s]
    IN  IF IsIf(l)
        THEN LET r == evaluateCondition(l, variables)
             IN  Append(stack, Frame("cond", IF r THEN "main" ELSE "chain",
                                     s + 1, s, 0, 0, NaN, NaN, r, ""))
        ELSE IF IsWhile(l)
        THEN LET e == FindEnd(lines, s, "endwhile")
             IN  IF e = 0 THEN DeliverTo(stack, Len(lines) + 1)
                 ELSE Append(stack, Frame("while", "test", s + 1, s, e, 0,
                                          NaN, NaN, FALSE, ""))
        ELSE LET e == FindEnd(lines, s, "endfor")
             IN  IF e = 0 THEN DeliverTo(stack, Len(lines) + 1)
                 ELSE Append(stack, Frame("for", "test", s + 1, s, e, 0,
                                          ParseFloat(l.a), ParseFloat(l.b),
                                          FALSE, l.v))

\* a block processor is entered at line s: only processCondition evaluates
\* a condition on entry
Call(s) ==
    /\ stack' = CallBlock(s)
    /\ condCount' = IF IsIf(lines[s]) THEN Bump(condCount, s) ELSE condCount
    /\ UNCHANGED <<phase, code, lines, variables, shouldExit, exitCode,
                   shouldBreak, shouldContinue, result, execCount, passCount,
                   errCount, lastExec>>

\* executeLine(lines[p]) and the caller's statements up to its next loop
\* turn: `next` is the caller's stack after the handler returned,
\* clearContinue tells that the caller resets shouldContinue (processFor
\* 824-827).  A throwing handler ends execute with false.
ExecuteLine(p, next, clearContinue) ==
    LET l   == lines[p]
        eff == ExecEffect(l)
        inv == Invokes(l, shouldExit)
    IN  /\ execCount' = IF inv THEN Bump(execCount, p) ELSE execCount
        /\ lastExec' = IF inv THEN p ELSE lastExec
        /\ IF Throws(l, shouldExit)
           THEN /\ phase' = "done"
                /\ result' = "false"
                /\ stack' = <<>>
                /\ UNCHANGED <<variables, shouldExit, exitCode, shouldBreak,
                               shouldContinue>>
           ELSE /\ variables' = eff.variables
                /\ shouldExit' = eff.shouldExit
                /\ exitCode' = eff.exitCode
                /\ shouldBreak' = eff.shouldBreak
                /\ shouldContinue' = (eff.shouldContinue /\ ~clearContinue)
                /\ stack' = next
                /\ UNCHANGED <<phase, result>>
        /\ UNCHANGED <<code, lines, condCount, passCount, errCount>>

\* a step that only moves the top activation
Move(stk) ==
    /\ stack' = stk
    /\ UNCHANGED <<phase, code, lines, variables, shouldExit, exitCode,
                   shouldBreak, shouldContinue, result, execCount, condCount,
                   passCount, errCount, lastExec>>

----------------------------------------------------------------------------
(* Programs handed to execute *)

MaxSrcLen == 4     \* longest source enumerated line by line
MaxEnd == 3        \* largest end bound of an enumerated for loop
MaxOver == 1       \* a runaway for range holds up to ForMax + MaxOver values

SeqsUpTo(S, n) == UNION {[1..k -> S] : k \in 0..n}

\* every source of up to MaxSrcLen lines of block directives and a statement
BlockAlphabet == {If("true"), If("false"), ElseIf("true"), Else, EndIf,
                  While("false"), EndWhile, For("i", 0, 1), EndFor, Log}
BlockPrograms == SeqsUpTo(BlockAlphabet, MaxSrcLen)

\* every source of up to MaxSrcLen lines without block directives
FlatAlphabet == {Log, Var("x", 1), Inc("x"), Break, Continue, Exit(2), Text,
                 Comment}
FlatPrograms == SeqsUpTo(FlatAlphabet, MaxSrcLen)

\* conditionals: if [elseif] [elseif] [else] endif, then a statement
Bools == {"true", "false"}
CondBodies == {<<Log>>, <<Log, Log>>, <<Break, Log>>, <<Exit(1)>>,
               <<ExitText(<<"a">>), Log>>,
               <<If("true"), Log, EndIf, Log>>,
               <<If("false"), Log, Else, Log, EndIf>>}
ElseIfParts == {<<>>} \cup {<<ElseIf(c)>> \o b : c \in Bools, b \in CondBodies}
ElseParts == {<<>>} \cup {<<Else>> \o b : b \in CondBodies}
CondPrograms ==
    {<<If(c)>> \o b \o e1 \o e2 \o el \o <<EndIf, Log>> :
        c \in Bools, b \in CondBodies, e1 \in ElseIfParts,
        e2 \in {<<>>, <<ElseIf("true"), Log>>}, el \in ElseParts}

\* one loop after an optional stray break/continue, then a statement; a
\* while loop counts x up to its limit, a for loop runs i over s..e-1
LoopPieces == {<<Log>>, <<Break>>, <<Continue>>, <<Exit(1)>>, <<Var("i", 7)>>,
               <<If("true"), Break, EndIf>>, <<If("true"), Continue, EndIf>>,
               <<If("true"), Exit(3), EndIf>>,
               <<If("false"), Log, Else, Log, EndIf>>}
LoopBodies == {a \o b : a \in {<<>>} \cup LoopPieces, b \in LoopPieces}
Preludes == {<<>>, <<Break>>, <<Continue>>}
WhileLoops == {<<WhileLt("x", 2), Inc("x")>> \o b \o <<EndWhile>> :
                  b \in LoopBodies}
ForLoops == {<<For("i", s, e)>> \o b \o <<EndFor>> :
                s \in 0..1, e \in 0..MaxEnd, b \in LoopBodies}
LoopPrograms ==
    {<<Var("x", 0)>> \o pre \o l \o <<Log>> :
        pre \in Preludes, l \in WhileLoops \cup ForLoops}

\* a loop inside a loop or inside a taken branch, with statements of the
\* outer block before and after it
InnerLoops == {<<While("false"), Log, EndWhile>>,
               <<While("true"), Log, Break, Log, EndWhile>>,
               <<For("j", 0, 2), Log, EndFor>>,
               <<For("j", 0, 2), Break, Log, EndFor>>,
               <<For("j", 0, 2), Continue, Log, EndFor>>}
Trailers == {<<>>, <<Log>>, <<Continue, Log>>, <<Break, Log>>}
Wrappers == {"while", "for", "if", "else"}
Wrap(w, body) ==
    CASE w = "while" -> <<WhileLt("x", 2), Inc("x")>> \o body \o <<EndWhile>>
      [] w = "for"   -> <<For("i", 0, 2)>> \o body \o <<EndFor>>
      [] w = "if"    -> <<If("true")>> \o body \o <<EndIf>>
      [] w = "else"  -> <<If("false"), Log, Else>> \o body \o <<EndIf>>
NestPrograms ==
    {<<Var("x", 0)>> \o Wrap(w, pre \o l \o t) \o <<Log>> :
        w \in Wrappers, pre \in {<<>>, <<Log>>}, l \in InnerLoops,
        t \in Trailers}

\* loops that only their iteration ceiling stops
RunawayBodies == {<<Log>>, <<Log, Continue, Log>>, <<If("true"), Log, EndIf>>}
RunawayWhiles == {<<While("true")>> \o b \o <<EndWhile>> : b \in RunawayBodies}
RunawayFors == {<<For("i", 0, ForMax + d), Log, EndFor>> : d \in 1..MaxOver}
RunawayPrograms ==
    {pre \o l \o <<Log>> : pre \in Preludes, l \in RunawayWhiles \cup RunawayFors}
    \cup {<<Var("x", 0)>> \o Wrap(w, l) \o <<Log>> :
             w \in Wrappers, l \in RunawayWhiles \cup RunawayFors}

Programs == BlockPrograms \cup FlatPrograms \cup CondPrograms
            \cup LoopPrograms \cup NestPrograms \cup RunawayPrograms

----------------------------------------------------------------------------
(* Actions *)

Zeros(n) == [p \in 1..n |-> 0]

NoCall == [fn |-> "none"]
NoResolve == [stack |-> <<>>, ret |-> <<>>, missing |-> FALSE]

\* the fields of a new interpreter (interpreter.js 321-331)
InitRun ==
    /\ phase = "idle"
    /\ code = <<>>
    /\ lines = <<>>
    /\ variables = <<>>
    /\ shouldExit = FALSE
    /\ exitCode = 0
    /\ shouldBreak = FALSE
    /\ shouldContinue = FALSE
    /\ stack = <<>>
    /\ result = "none"
    /\ execCount = <<>>
    /\ condCount = <<>>
    /\ passCount = <<>>
    /\ errCount = <<>>
    /\ lastExec = 0

Init ==
    /\ InitRun
    /\ call = NoCall
    /\ files = <<>>
    /\ loadedFiles = {}
    /\ reads = <<>>
    /\ resolve = NoResolve
    /\ plugins = <<>>
    /\ functions = <<>>
    /\ instances = <<>>

\* execute(code) up to its run loop (interpreter.js 406-427): an empty
\* source and a source with validation errors return false at once
Execute(src) ==
    /\ code' = src
    /\ LET ok == src # <<>> /\ validateCode(src) = <<>>
           ls == FilterLines(src)
       IN  /\ phase' = IF ok THEN "running" ELSE "done"
           /\ result' = IF ok THEN "none" ELSE "false"
           /\ lines' = IF ok THEN ls ELSE <<>>
           /\ stack' = IF ok
                       THEN <<Frame("execute", "run", 1, 0, 0, 0, NaN, NaN,
                                    FALSE, "")>>
                       ELSE <<>>
           /\ execCount' = Zeros(Len(ls))
           /\ condCount' = Zeros(Len(ls))
           /\ passCount' = Zeros(Len(ls))
           /\ errCount' = Zeros(Len(ls))
    /\ UNCHANGED <<variables, shouldExit, exitCode, shouldBreak,
                   shouldContinue, lastExec>>

\* one turn of execute's run loop: processLine (interpreter.js 427-430,
\* 578-591)
ProcessLine ==
    /\ phase = "running"
    /\ UNCHANGED unitVars
    /\ Top.fn = "execute"
    /\ Top.idx <= Len(lines) /\ ~shouldExit
    /\ LET f == Top
           l == lines[f.idx]
       IN  IF IsIf(l) \/ IsWhile(l) \/ IsFor(l)
           THEN Call(f.idx)
           ELSE ExecuteLine(f.idx,
                    SetTop([f EXCEPT !.idx = f.idx + 1]), FALSE)

\* the run loop ends: execute returns true (interpreter.js 428, 432)
Finish ==
    /\ phase = "running"
    /\ UNCHANGED unitVars
    /\ Top.fn = "execute"
    /\ ~(Top.idx <= Len(lines) /\ ~shouldExit)
    /\ phase' = "done"
    /\ result' = "true"
    /\ stack' = <<>>
    /\ UNCHANGED <<code, lines, variables, shouldExit, exitCode, shouldBreak,
                   shouldContinue, execCount, condCount, passCount, errCount,
                   lastExec>>

\* one turn of a loop of processCondition (interpreter.js 604-697).
\*   main:       the body of a taken if (604-625)
\*   chain:      the elseif/else chain of an untaken if (627-694)
\*   elseifBody: the body of the taken elseif (639-655)
\*   elseBody:   the body of the else (663-678)
ProcessCondition ==
    /\ phase = "running"
    /\ UNCHANGED unitVars
    /\ Top.fn = "cond"
    /\ LET f      == Top
           go     == f.idx <= Len(lines) /\ ~shouldExit /\ ~shouldBreak
                     /\ ~shouldContinue
           l      == lines[f.idx]
           step   == [f EXCEPT !.idx = f.idx + 1]
       IN  CASE f.mode = "main" ->
                  IF ~go THEN Move(Return(f.idx))
                  ELSE IF IsEndIf(l) THEN Move(Return(f.idx + 1))
                  ELSE IF IsElseIf(l) \/ IsElsePrefix(l)
                       THEN Move(Return(SkipToEndIf(lines, f.idx)))
                  ELSE IF IsIf(l) THEN Call(f.idx)
                  ELSE ExecuteLine(f.idx, SetTop(step), FALSE)
             [] f.mode = "chain" ->
                  IF ~go THEN Move(Return(f.idx))
                  ELSE IF IsEndIf(l) THEN Move(Return(f.idx + 1))
                  ELSE IF IsElseIf(l)
                       THEN IF ~f.be
                            THEN /\ condCount' = Bump(condCount, f.idx)
                                 /\ stack' = IF evaluateCondition(l, variables)
                                             THEN SetTop([step EXCEPT !.be = TRUE,
                                                             !.mode = "elseifBody"])
                                             ELSE SetTop(step)
                                 /\ UNCHANGED <<phase, code, lines, variables,
                                       shouldExit, exitCode, shouldBreak,
                                       shouldContinue, result, execCount,
                                       passCount, errCount, lastExec>>
                            ELSE Move(SetTop(step))
                  ELSE IF IsElsePrefix(l)
                       THEN IF ~f.be
                            THEN Move(SetTop([step EXCEPT !.be = TRUE,
                                                     !.mode = "elseBody"]))
                            ELSE Move(SetTop(step))
                  ELSE IF IsIf(l)
                       THEN Move(SetTop([f EXCEPT
                                    !.idx = SkipNested(lines, f.idx + 1, 1)]))
                  ELSE Move(SetTop(step))
             [] f.mode = "elseifBody" ->
                  IF ~go THEN Move(SetTop([f EXCEPT !.mode = "chain"]))
                  ELSE IF IsEndIf(l) \/ IsElseIf(l) \/ IsElsePrefix(l)
                       THEN Move(SetTop([f EXCEPT !.mode = "chain"]))
                  ELSE IF IsIf(l) THEN Call(f.idx)
                  ELSE ExecuteLine(f.idx, SetTop(step), FALSE)
             [] f.mode = "elseBody" ->
                  IF ~go THEN Move(SetTop([f EXCEPT !.mode = "chain"]))
                  ELSE IF IsEndIf(l)
                       THEN Move(SetTop([f EXCEPT !.mode = "chain"]))
                  ELSE IF IsIf(l) THEN Call(f.idx)
                  ELSE ExecuteLine(f.idx, SetTop(step), FALSE)

\* a JavaScript i < endVal
Less(x, y) == ~x.nan /\ ~y.nan /\ x.n < y.n

\* i++
Succ(x) == IF x.nan THEN x ELSE Num(x.n + 1)

\* one turn of a loop of processWhile (interpreter.js 722-769).
\*   test: the head of the outer loop (725) or the code after it (762-769)
\*   body: one turn of the block loop (731-749), or the code after it (751-755)
ProcessWhile ==
    /\ phase = "running"
    /\ UNCHANGED unitVars
    /\ Top.fn = "while"
    /\ LET f == Top
           l == lines[f.idx]
           leave == /\ shouldBreak' = FALSE
                    /\ shouldContinue' = FALSE
                    /\ errCount' = IF f.iter >= WhileMax
                                   THEN Bump(errCount, f.start) ELSE errCount
                    /\ stack' = Return(f.end + 1)
       IN  IF f.mode = "test"
           THEN /\ condCount' = Bump(condCount, f.start)
                /\ IF /\ evaluateCondition(lines[f.start], variables)
                      /\ f.iter < WhileMax
                      /\ ~shouldExit
                   THEN /\ shouldBreak' = FALSE
                        /\ shouldContinue' = FALSE
                        /\ stack' = SetTop([f EXCEPT !.mode = "body",
                                                     !.idx = f.start + 1])
                        /\ passCount' = Bump(passCount, f.start)
                        /\ UNCHANGED errCount
                   ELSE leave /\ UNCHANGED passCount
                /\ UNCHANGED <<phase, code, lines, variables, shouldExit,
                               exitCode, result, execCount, lastExec>>
           ELSE IF f.idx < f.end /\ ~shouldExit /\ ~shouldBreak /\ ~shouldContinue
                THEN IF IsIf(l) \/ IsWhile(l) THEN Call(f.idx)
                     ELSE ExecuteLine(f.idx,
                              SetTop([f EXCEPT !.idx = f.idx + 1]),
                              FALSE)
                ELSE IF shouldBreak
                     THEN /\ leave
                          /\ UNCHANGED <<phase, code, lines, variables,
                                shouldExit, exitCode, result, execCount,
                                condCount, passCount, lastExec>>
                     ELSE Move(SetTop([f EXCEPT !.mode = "test",
                                                !.iter = f.iter + 1]))

\* a counter that is read back from the loop variable after each pass
ForAfterBodyFromStore(f) ==
    IF shouldBreak
    THEN /\ shouldBreak' = FALSE
         /\ errCount' = IF f.iter >= ForMax
                        THEN Bump(errCount, f.start) ELSE errCount
         /\ stack' = Return(f.end + 1)
         /\ UNCHANGED <<phase, code, lines, variables, shouldExit, exitCode,
                        shouldContinue, result, execCount, condCount,
                        passCount, lastExec>>
    ELSE Move(SetTop([f EXCEPT !.mode = "test", !.iter = f.iter + 1,
                               !.i = Succ(ParseFloat(variables[f.v]))]))

\* the code after the block loop of processFor (833-838, 845-849)
ForAfterBody(f) ==
    IF shouldBreak
    THEN /\ shouldBreak' = FALSE
         /\ errCount' = IF f.iter >= ForMax
                        THEN Bump(errCount, f.start) ELSE errCount
         /\ stack' = Return(f.end + 1)
         /\ UNCHANGED <<phase, code, lines, variables, shouldExit, exitCode,
                        shouldContinue, result, execCount, condCount,
                        passCount, lastExec>>
    ELSE Move(SetTop([f EXCEPT !.mode = "test", !.iter = f.iter + 1,
                               !.i = Succ(f.i)]))

\* the flag tests after each body statement of processFor (824-830): the
\* mode the activation continues in
ForAfterStatement(cont, brk) == IF cont \/ brk THEN "after" ELSE "body"

\* one turn of a loop of processFor (interpreter.js 798-849).
\*   test:  the head of the for statement (802) and the code after it
\*   body:  one turn of the block loop (808-822)
\*   check: the flag tests after a nested block returned (824-830)
\*   after: the code after the block loop (833-838)
ProcessFor ==
    /\ phase = "running"
    /\ UNCHANGED unitVars
    /\ Top.fn = "for"
    /\ LET f == Top
           l == lines[f.idx]
       IN  CASE f.mode = "test" ->
                  IF Less(f.i, f.endv) /\ f.iter < ForMax /\ ~shouldExit
                  THEN /\ variables' = MapSet(variables, f.v, String(f.i.n))
                       /\ stack' = SetTop([f EXCEPT !.mode = "body",
                                                    !.idx = f.start + 1])
                       /\ passCount' = Bump(passCount, f.start)
                       /\ UNCHANGED <<phase, code, lines, shouldExit, exitCode,
                             shouldBreak, shouldContinue, result, execCount,
                             condCount, errCount, lastExec>>
                  ELSE /\ errCount' = IF f.iter >= ForMax
                                      THEN Bump(errCount, f.start) ELSE errCount
                       /\ stack' = Return(f.end + 1)
                       /\ UNCHANGED <<phase, code, lines, variables, shouldExit,
                             exitCode, shouldBreak, shouldContinue, result,
                             execCount, condCount, passCount, lastExec>>
             [] f.mode = "body" ->
                  IF f.idx < f.end /\ ~shouldExit /\ ~shouldBreak
                  THEN IF IsIf(l) \/ IsWhile(l) \/ IsFor(l) THEN Call(f.idx)
                       ELSE ExecuteLine(f.idx,
                                SetTop([f EXCEPT
                                    !.idx = f.idx + 1,
                                    !.mode = ForAfterStatement(
                                                ExecEffect(l).shouldContinue,
                                                ExecEffect(l).shouldBreak)]),
                                TRUE)
                  ELSE ForAfterBody(f)
             [] f.mode = "check" ->
                  /\ shouldContinue' = FALSE
                  /\ stack' = SetTop([f EXCEPT !.mode =
                                 ForAfterStatement(shouldContinue, shouldBreak)])
                  /\ UNCHANGED <<phase, code, lines, variables, shouldExit,
                        exitCode, shouldBreak, result, execCount, condCount,
                        passCount, errCount, lastExec>>
             [] f.mode = "after" -> ForAfterBody(f)

\* a source is handed to the idle interpreter
Start ==
    /\ phase = "idle"
    /\ UNCHANGED unitVars
    /\ \E src \in Programs : Execute(src)

Next ==
    \/ Start
    \/ ProcessLine
    \/ Finish
    \/ ProcessCondition
    \/ ProcessWhile
    \/ ProcessFor

Spec == Init /\ [][Next]_vars

----------------------------------------------------------------------------
(* The block structure of a source, as the language defines it *)

OpenerKinds == {"if", "while", "for"}
CloserKinds == {"endif", "endwhile", "endfor"}
BlockKinds == OpenerKinds \cup CloserKinds \cup {"elseif", "else"}
StatementKinds == {"log", "var", "inc", "break", "continue", "exit"}

Closes(o, c) == \/ o.k = "if" /\ c.k = "endif"
                \/ o.k = "while" /\ c.k = "endwhile"
                \/ o.k = "for" /\ c.k = "endfor"

\* the openers and terminators of a source, in order
BlockWord(src) == SelectSeq(src, LAMBDA l : l.k \in OpenerKinds \cup CloserKinds)

RECURSIVE Reduce(_)
\* delete adjacent opener/terminator pairs of the same kind until none is left
Reduce(w) ==
    LET P == {p \in 1..(Len(w) - 1) : Closes(w[p], w[p + 1])}
    IN  IF P = {} THEN w
        ELSE LET p == CHOOSE q \in P : TRUE
             IN  Reduce(SubSeq(w, 1, p - 1) \o SubSeq(w, p + 2, Len(w)))

\* every opener has its terminator and every terminator its opener, nested
Balanced(src) == Reduce(BlockWord(src)) = <<>>

NoHandlerRan == lastExec = 0 /\ \A p \in DOMAIN execCount : execCount[p] = 0

Untouched == /\ variables = <<>>
             /\ ~shouldExit /\ ~shouldBreak /\ ~shouldContinue
             /\ exitCode = 0

(* C1: a source whose block directives are unbalanced makes execute return *)
(* false without invoking any handler and without changing the variable    *)
(* store or the control flags.                                             *)
C1_UnbalancedRunsNothing ==
    (phase # "idle" /\ ~Balanced(code)) =>
        /\ phase = "done"
        /\ result = "false"
        /\ NoHandlerRan
        /\ Untouched

\* a terminator of the wrong kind after a statement was refused
C1_Witness ==
    /\ phase = "done"
    /\ result = "false"
    /\ ~Balanced(code)
    /\ \E p \in 1..(Len(code) - 1) : code[p].k = "log" /\ code[p + 1].k \in CloserKinds
    /\ \E p \in 1..Len(code) : code[p].k \in OpenerKinds

NoBlock(src) == \A p \in 1..Len(src) : src[p].k \notin BlockKinds

IsStatement(l) == l.k \in StatementKinds

\* the index of the first exit directive of ls, Len(ls) when it has none
FirstExit(ls) ==
    LET j == FirstKind(ls, 1, "exit") IN IF j = 0 THEN Len(ls) ELSE j

(* C2, as claimed: a program without block directives has run every        *)
(* statement exactly once when execute returns.                            *)
C2_Original ==
    (phase = "done" /\ NoBlock(code)) =>
        \A p \in 1..Len(lines) :
            execCount[p] = IF IsStatement(lines[p]) THEN 1 ELSE 0

(* C2, amended: in a program without block directives the statements run   *)
(* exactly once each and in file order up to and including the first exit  *)
(* directive, and no statement after that exit runs.  At every moment the  *)
(* handlers invoked so far are those of the statements up to the one       *)
(* invoked last, once each.                                                *)
C2_FlatRunsInOrderUntilExit ==
    (phase # "idle" /\ NoBlock(code)) =>
        /\ lastExec <= FirstExit(lines)
        /\ \A p \in 1..Len(lines) :
              execCount[p] = IF IsStatement(lines[p]) /\ p <= lastExec
                             THEN 1 ELSE 0
        /\ phase = "done" =>
              \A p \in 1..FirstExit(lines) :
                  IsStatement(lines[p]) => execCount[p] = 1

\* a flat program ran two statements, stopped at its exit and left one unrun
C2_Witness ==
    /\ phase = "done"
    /\ result = "true"
    /\ NoBlock(code)
    /\ Len(lines) = 4
    /\ lines[3].k = "exit"
    /\ IsStatement(lines[4])
    /\ execCount = <<1, 1, 1, 0>>

----------------------------------------------------------------------------
(* Blocks of a validated program, matched by depth *)

RECURSIVE MatchFrom(_, _, _)
MatchFrom(ls, cur, depth) ==
    IF cur > Len(ls) THEN 0
    ELSE IF ls[cur].k \in OpenerKinds THEN MatchFrom(ls, cur + 1, depth + 1)
    ELSE IF ls[cur].k \in CloserKinds
         THEN IF depth = 1 THEN cur ELSE MatchFrom(ls, cur + 1, depth - 1)
    ELSE MatchFrom(ls, cur + 1, depth)

\* the terminator of the block opened at line s
Match(ls, s) == MatchFrom(ls, s + 1, 1)

MaxOf(S) == IF S = {} THEN 0 ELSE CHOOSE m \in S : \A n \in S : n <= m

\* line p lies in the block opened at line s
Inside(ls, s, p) == ls[s].k \in OpenerKinds /\ s < p /\ p < Match(ls, s)

\* the opener of the innermost block (loop) holding line p, 0 at top level
Innermost(ls, p) == MaxOf({s \in 1..(p - 1) : Inside(ls, s, p)})
InnermostLoop(ls, p) ==
    MaxOf({s \in 1..(p - 1) : Inside(ls, s, p) /\ ls[s].k \in {"while", "for"}})

\* the if, elseif and else lines of the conditional opened at line s
Heads(ls, s) ==
    {s} \cup {m \in (s + 1)..(Match(ls, s) - 1) :
                 ls[m].k \in {"elseif", "else"} /\ Innermost(ls, m) = s}

\* the head of the branch of conditional s that holds line p
BranchOf(ls, s, p) == MaxOf({h \in Heads(ls, s) : h <= p})

\* the conditions of conditional s are the literals true and false
ConstantConds(ls, s) ==
    \A h \in Heads(ls, s) : ls[h].k = "else" \/ ls[h].c \in {"true", "false"}

\* the first elseif of conditional s whose condition is true, 0 if none
FirstTrueElseIf(ls, s) ==
    LET T == {h \in Heads(ls, s) : ls[h].k = "elseif" /\ ls[h].c = "true"}
    IN  IF T = {} THEN 0 ELSE CHOOSE h \in T : \A g \in T : h <= g

Conditionals(ls) == {s \in 1..Len(ls) : IsIf(ls[s]) /\ ConstantConds(ls, s)}

HasKind(ls, kinds) == \E p \in 1..Len(ls) : ls[p].k \in kinds

\* line s is reached by every run: before it stand only statements other
\* than exit and openers of taken ifs around it
Reached(ls, s) ==
    \A q \in 1..(s - 1) :
        \/ ls[q].k \in {"log", "var", "inc", "break", "continue", "text"}
        \/ IsIf(ls[q]) /\ ls[q].c = "true" /\ Inside(ls, q, s)

\* the body of the block opened at s holds no line of the given kinds
BodyFree(ls, s, kinds) ==
    \A p \in (s + 1)..(Match(ls, s) - 1) : ls[p].k \notin kinds

(* C3, as claimed: in a conditional whose if condition is false only the   *)
(* body of the first true elseif executes: no statement of another branch  *)
(* runs and no elseif after the taken one is evaluated.                    *)
C3_Original ==
    \A s \in Conditionals(lines) :
        lines[s].c = "false" =>
            LET taken == FirstTrueElseIf(lines, s)
            IN  /\ \A h \in Heads(lines, s) :
                      (taken # 0 /\ h > taken /\ lines[h].k = "elseif")
                          => condCount[h] = 0
                /\ \A p \in (s + 1)..(Match(lines, s) - 1) :
                      (taken # 0 /\ IsStatement(lines[p])
                         /\ BranchOf(lines, s, p) # taken)
                          => execCount[p] = 0

(* C4, as claimed, for programs without break, continue and exit: when the *)
(* if condition is true no elseif condition is evaluated and no statement  *)
(* of an elseif or else body executes, also when such a body holds a       *)
(* nested if ... endif.                                                    *)
C4_Original ==
    ~HasKind(lines, {"break", "continue", "exit"}) =>
        \A s \in Conditionals(lines) :
            lines[s].c = "true" =>
                /\ \A h \in Heads(lines, s) :
                      lines[h].k = "elseif" => condCount[h] = 0
                /\ \A p \in (s + 1)..(Match(lines, s) - 1) :
                      (IsStatement(lines[p]) /\ BranchOf(lines, s, p) # s)
                          => execCount[p] = 0

(* C5, as claimed, for programs without break, continue and exit: a        *)
(* statement of the else body executes only if the if condition and every  *)
(* elseif condition of that conditional are false, and then the first      *)
(* statement of the else body of a reached conditional has run once when   *)
(* execute returns.                                                        *)
C5_Original ==
    ~HasKind(lines, {"break", "continue", "exit"}) =>
        \A s \in Conditionals(lines) :
            \A e \in Heads(lines, s) :
                lines[e].k = "else" =>
                    LET allFalse == \A h \in Heads(lines, s) :
                                        h = e \/ lines[h].c = "false"
                    IN  /\ \A p \in (e + 1)..(Match(lines, s) - 1) :
                              (IsStatement(lines[p]) /\ execCount[p] > 0)
                                  => allFalse
                        /\ (phase = "done" /\ allFalse /\ Reached(lines, s)
                              /\ IsStatement(lines[e + 1]))
                              => execCount[e + 1] = 1

Loops(ls, kind) == {s \in 1..Len(ls) : ls[s].k = kind}

Max(a, b) == IF a >= b THEN a ELSE b

\* the bounds of a for line written as integer literals, and their distance
IntBounds(l) == IsIntText(l.a) /\ IsIntText(l.b)
Range(l) == ParseFloat(l.b).n - ParseFloat(l.a).n

(* C6, as claimed: a reached while loop whose condition never becomes      *)
(* false and whose body holds no break and no exit runs its body exactly   *)
(* 1000 times, reports the runaway error, the statement after its endwhile *)
(* runs and execute reports success.                                       *)
C6_Original ==
    \A s \in Loops(lines, "while") :
        (phase = "done" /\ lines[s].c = "true" /\ Reached(lines, s)
           /\ BodyFree(lines, s, {"break", "exit"})) =>
            /\ passCount[s] = WhileMax
            /\ errCount[s] = 1
            /\ result = "true"
            /\ \A q \in 1..Len(lines) :
                  (q = Match(lines, s) + 1 /\ IsStatement(lines[q]))
                      => execCount[q] = 1

(* C7, as claimed: a reached for loop whose range exceeds 10,000 and whose *)
(* body holds no break and no exit runs its body exactly 10,000 times,     *)
(* reports the error, and the statement after its endfor runs.             *)
C7_Original ==
    \A s \in Loops(lines, "for") :
        (phase = "done" /\ Range(lines[s]) > ForMax
           /\ Reached(lines, s) /\ BodyFree(lines, s, {"break", "exit"})) =>
            /\ passCount[s] = ForMax
            /\ errCount[s] = 1
            /\ \A q \in 1..Len(lines) :
                  (q = s + 1 /\ lines[q].k = "log") => execCount[q] = ForMax
            /\ \A q \in 1..Len(lines) :
                  (q = Match(lines, s) + 1 /\ IsStatement(lines[q]))
                      => execCount[q] = 1
(* C8, as claimed: a reached for loop with integer bounds, a range of at   *)
(* most 10,000 and a body without break and exit runs its body             *)
(* max(0, end - start) times, the variable holds String(start + k - 1)     *)
(* when pass k begins, and with start >= end the variable is not assigned. *)
C8_Original ==
    \A s \in Loops(lines, "for") :
        (IntBounds(lines[s]) /\ Range(lines[s]) <= ForMax
           /\ Reached(lines, s) /\ BodyFree(lines, s, {"break", "exit"})) =>
            /\ phase = "done" =>
                  /\ passCount[s] = Max(0, Range(lines[s]))
                  /\ \A q \in 1..Len(lines) :
                        (q = s + 1 /\ lines[q].k = "log")
                            => execCount[q] = Max(0, Range(lines[s]))
                  /\ (Range(lines[s]) <= 0
                        /\ \A q \in 1..Len(lines) :
                              (q # s /\ lines[q].v = lines[s].v)
                                  => Inside(lines, s, q))
                        => ~Defined(variables, lines[s].v)
            /\ (stack # <<>> /\ Top.fn = "for" /\ Top.start = s
                  /\ Top.mode = "body" /\ Top.idx = s + 1)
                  => /\ Defined(variables, lines[s].v)
                     /\ variables[lines[s].v]
                            = String(ParseFloat(lines[s].a).n + passCount[s] - 1)

\* break (continue) lines that stand directly in the body of a loop
DirectIn(ls, kind) ==
    {p \in 1..Len(ls) : ls[p].k = kind /\ InnermostLoop(ls, p) # 0
                           /\ Innermost(ls, p) = InnermostLoop(ls, p)}

\* the statements of loop o that follow the loop s nested directly in it
\* and precede any break, continue or exit of o
Remaining(ls, o, s) ==
    {q \in (Match(ls, s) + 1)..(Match(ls, o) - 1) :
        /\ Innermost(ls, q) = o
        /\ \A r \in (Match(ls, s) + 1)..q :
              ls[r].k \in {"log", "var", "inc", "text"}}

(* C9, as claimed: after a break standing directly in a loop body the      *)
(* statement that follows it in the body does not run, the loop starts no  *)
(* further pass, and a loop around that loop goes on with its own          *)
(* remaining statements in each of its passes.                             *)
C9_Original ==
    \A p \in DirectIn(lines, "break") :
        LET s == InnermostLoop(lines, p)
            o == InnermostLoop(lines, s)
        IN  (phase = "done" /\ result = "true" /\ execCount[p] > 0
               /\ \A r \in (s + 1)..(p - 1) : lines[r].k \in {"log", "inc"}) =>
                /\ IsStatement(lines[p + 1]) => execCount[p + 1] = 0
                /\ passCount[s] = execCount[p]
                /\ (o # 0 /\ Innermost(lines, s) = o) =>
                      \A q \in Remaining(lines, o, s) :
                          execCount[q] = passCount[o]

(* C10, as claimed: after a continue standing directly in a loop body the  *)
(* statement that follows it in the body does not run, and the loop goes   *)
(* on to its next test, so that a for loop still makes all its passes.     *)
C10_Original ==
    \A p \in DirectIn(lines, "continue") :
        LET s == InnermostLoop(lines, p)
        IN  (phase = "done" /\ result = "true" /\ execCount[p] > 0) =>
                /\ IsStatement(lines[p + 1]) => execCount[p + 1] = 0
                /\ (IsFor(lines[s]) /\ Reached(lines, s)
                      /\ BodyFree(lines, s, {"break", "exit"}))
                      => passCount[s] = Max(0, Range(lines[s]))
\* the exit lines that have executed
ExitRan == {p \in 1..Len(lines) : lines[p].k = "exit" /\ execCount[p] > 0}

(* C11: once an exit directive has executed, at any depth, the exit flag   *)
(* stays raised, the recorded code is the integer value of that exit's     *)
(* argument (0 when it is no integer), no statement executes and no loop   *)
(* pass starts any more, the store keeps its contents, and execute         *)
(* returns success.                                                        *)
C11_ExitStopsProgram ==
    /\ [](ExitRan # {} =>
            /\ shouldExit
            /\ ExitRan = {lastExec}
            /\ execCount[lastExec] = 1
            /\ exitCode = (IF IsIntText(lines[lastExec].a)
                           THEN ParseFloat(lines[lastExec].a).n ELSE 0)
            /\ phase = "done" => result = "true")
    /\ [][ExitRan # {} =>
            /\ execCount' = execCount
            /\ passCount' = passCount
            /\ errCount' = errCount
            /\ variables' = variables
            /\ exitCode' = exitCode
            /\ shouldExit']_vars

\* execute has returned after an exit inside a conditional inside a loop
\* body, with a statement left unrun behind it
C11_Witness ==
    /\ phase = "done" /\ result = "true"
    /\ \E p \in ExitRan :
          /\ InnermostLoop(lines, p) # 0
          /\ lines[Innermost(lines, p)].k = "if"
          /\ \E q \in (p + 1)..Len(lines) :
                IsStatement(lines[q]) /\ execCount[q] = 0
(* C12, as claimed, for programs without break, continue and exit: when a  *)
(* while loop holds a while loop (a for loop a for loop) directly in its   *)
(* body, the outer loop's statements between the inner terminator and its  *)
(* own terminator run once in each pass of the outer loop.                 *)
C12_Original ==
    (phase = "done" /\ result = "true"
       /\ ~HasKind(lines, {"break", "continue", "exit"})) =>
        \A s \in Loops(lines, "while") \cup Loops(lines, "for") :
            LET o == InnermostLoop(lines, s)
            IN  (o # 0 /\ Innermost(lines, s) = o /\ lines[o].k = lines[s].k
                   /\ Innermost(lines, o) = 0) =>
                    \A q \in Remaining(lines, o, s) :
                        execCount[q] = passCount[o]
----------------------------------------------------------------------------
(* replaceVariables (utils.js 529-544) called on its own.  The store is    *)
(* the Map this.variables as a sequence of entries [k, v] in insertion     *)
(* order; names and values are texts.                                      *)

MaxVars == 2
MaxText == 4

IsPrefix(k, t) == Len(k) <= Len(t) /\ SubSeq(t, 1, Len(k)) = k
Drop(t, n) == SubSeq(t, n + 1, Len(t))

\* a set that drops every other entry
MapSetEntryAlone(es, k, v) == <<[k |-> k, v |-> v]>>

\* Map.prototype.set: a new name goes last, a bound name keeps its place
MapSetEntry(es, k, v) ==
    IF \E i \in DOMAIN es : es[i].k = k
    THEN [i \in DOMAIN es |-> IF es[i].k = k THEN [k |-> k, v |-> v] ELSE es[i]]
    ELSE Append(es, [k |-> k, v |-> v])

\* entries.sort((a, b) => b[0].length - a[0].length): stable, longest first
RECURSIVE InsertByLength(_, _)
InsertByLength(sorted, e) ==
    IF sorted = <<>> THEN <<e>>
    ELSE IF Len(Head(sorted).k) >= Len(e.k)
         THEN <<Head(sorted)>> \o InsertByLength(Tail(sorted), e)
         ELSE <<e>> \o sorted

\* the entries left in insertion order
SortByLengthNone(es) == es

RECURSIVE SortByLength(_)
SortByLength(es) ==
    IF es = <<>> THEN <<>>
    ELSE InsertByLength(SortByLength(SubSeq(es, 1, Len(es) - 1)), es[Len(es)])

\* the alternation (k1|k2|...) tried at text t: the first entry in order
\* whose name matches there, as a sequence of at most one entry
RECURSIVE FirstMatch(_, _)
FirstMatch(es, t) ==
    IF es = <<>> THEN <<>>
    ELSE IF IsPrefix(Head(es).k, t) THEN <<Head(es)>>
    ELSE FirstMatch(Tail(es), t)

\* result.replace(combined, ...) with the g flag: one pass from the left,
\* replaced text is not scanned again
RECURSIVE ReplaceAll(_, _)
ReplaceAll(t, es) ==
    IF t = <<>> THEN <<>>
    ELSE IF Head(t) = "$"
         THEN LET m == FirstMatch(es, Tail(t))
              IN  IF m = <<>> THEN <<"$">> \o ReplaceAll(Tail(t), es)
                  ELSE m[1].v \o ReplaceAll(Drop(Tail(t), Len(m[1].k)), es)
    ELSE <<Head(t)>> \o ReplaceAll(Tail(t), es)

replaceVariables(text, es) ==
    IF es = <<>> THEN text ELSE ReplaceAll(text, SortByLength(es))

\* names of which each is a prefix of the next, values, and texts
VarNames == {<<"n">>, <<"n", "2">>, <<"n", "2", "2">>}
VarValues == {<<"a">>, <<"$", "n">>}
TextAlphabet == {"$", "n", "2"}
Texts == SeqsUpTo(TextAlphabet, MaxText)

runVars == <<phase, code, lines, variables, shouldExit, exitCode, shouldBreak,
             shouldContinue, stack, result, execCount, condCount, passCount,
             errCount, lastExec>>

\* this.variables.set(name, value) on the store of the call
VariablesSet ==
    /\ call.fn \in {"none", "store"}
    /\ \E k \in VarNames, v \in VarValues :
          LET es == IF call.fn = "none" THEN <<>> ELSE call.store
          IN  /\ Len(MapSetEntry(es, k, v)) <= MaxVars
              /\ call' = [fn |-> "store", store |-> MapSetEntry(es, k, v)]
    /\ UNCHANGED <<runVars, reqVars, plugVars, instances>>

\* replaceVariables(text) on that store
ReplaceVariables ==
    /\ call.fn \in {"none", "store"}
    /\ \E t \in Texts :
          LET es == IF call.fn = "none" THEN <<>> ELSE call.store
          IN  call' = [fn |-> "replaceVariables", store |-> es, text |-> t,
                       ret |-> replaceVariables(t, es)]
    /\ UNCHANGED <<runVars, reqVars, plugVars, instances>>

NextReplace == VariablesSet \/ ReplaceVariables

SpecReplace == Init /\ [][NextReplace]_vars

\* substitution by the longest bound name that stands after each "$"
RECURSIVE LongestFirst(_, _)
LongestFirst(t, es) ==
    IF t = <<>> THEN <<>>
    ELSE IF Head(t) = "$"
         THEN LET M == {i \in DOMAIN es : IsPrefix(es[i].k, Tail(t))}
              IN  IF M = {} THEN <<"$">> \o LongestFirst(Tail(t), es)
                  ELSE LET i == CHOOSE i \in M :
                                   \A j \in M : Len(es[j].k) <= Len(es[i].k)
                       IN  es[i].v \o LongestFirst(Drop(Tail(t), Len(es[i].k)), es)
    ELSE <<Head(t)>> \o LongestFirst(Tail(t), es)

(* C13: replaceVariables substitutes longest-name-first: after each "$"    *)
(* the longest bound name standing there is replaced by its value, so a    *)
(* reference to a name that has a bound proper prefix yields the longer    *)
(* name's value, never the shorter name's value and the remaining          *)
(* characters.                                                             *)
C13_LongestNameFirst ==
    call.fn = "replaceVariables" =>
        /\ call.ret = LongestFirst(call.text, call.store)
        /\ \A i, j \in DOMAIN call.store :
              LET short == call.store[i]
                  long  == call.store[j]
              IN  (IsPrefix(short.k, long.k) /\ short.k # long.k
                     /\ call.text = <<"$">> \o long.k)
                      => call.ret = long.v

\* "$n2" was substituted in a store that binds n before n2 to another value
C13_Witness ==
    /\ call.fn = "replaceVariables"
    /\ call.text = <<"$", "n", "2">>
    /\ call.store = <<[k |-> <<"n">>, v |-> <<"$", "n">>],
                      [k |-> <<"n", "2">>, v |-> <<"a">>]>>
    /\ call.ret = <<"a">>
----------------------------------------------------------------------------
(* handleDiv (utils.js 367-393) called on its own, on argument texts that  *)
(* hold no nested call and no variable reference.                          *)

MaxOperand == 3

\* String.prototype.trim, for blanks
RECURSIVE TrimLeft(_)
TrimLeft(t) == IF t # <<>> /\ Head(t) = " " THEN TrimLeft(Tail(t)) ELSE t
RECURSIVE TrimRight(_)
TrimRight(t) ==
    IF t # <<>> /\ t[Len(t)] = " " THEN TrimRight(SubSeq(t, 1, Len(t) - 1)) ELSE t
Trim(t) == TrimRight(TrimLeft(t))

QuoteChars == {"\"", "'"}

\* cleanQuotes (utils.js 67-74)
cleanQuotes(text) ==
    LET r == Trim(text)
    IN  IF r # <<>> /\ Head(r) \in QuoteChars /\ r[Len(r)] = Head(r)
        THEN SubSeq(r, 2, Len(r) - 1)
        ELSE r

\* the loop of splitArgs (utils.js 40-60) from character i on
RECURSIVE SplitFrom(_, _, _, _, _, _, _)
SplitFrom(args, i, parts, current, bracketCount, inQuotes, quoteChar) ==
    IF i > Len(args)
    THEN IF current # <<>> THEN Append(parts, current) ELSE parts
    ELSE LET char == args[i]
             opens == char \in QuoteChars /\ ~inQuotes
             closes == ~opens /\ inQuotes /\ char = quoteChar
             inq == IF opens THEN TRUE ELSE IF closes THEN FALSE ELSE inQuotes
             qc == IF opens THEN char ELSE quoteChar
             bc == IF inq THEN bracketCount
                   ELSE IF char = "[" THEN bracketCount + 1
                   ELSE IF char = "]" THEN bracketCount - 1
                   ELSE bracketCount
         IN  IF char = ";" /\ bc = 0 /\ ~inq
             THEN SplitFrom(args, i + 1, Append(parts, current), <<>>, bc, inq, qc)
             ELSE SplitFrom(args, i + 1, parts, Append(current, char), bc, inq, qc)

\* a splitArgs that starts inside a bracket
splitArgsDepthOne(args) == SplitFrom(args, 1, <<>>, <<>>, 1, FALSE, "")

\* splitArgs (utils.js 33-65)
splitArgs(args) == SplitFrom(args, 1, <<>>, <<>>, 0, FALSE, "")

Abs(n) == IF n < 0 THEN 0 - n ELSE n

\* (a / b).toString() for integers a and b with b in {-2, -1, 0, 1, 2}
QuotientText(a, b) ==
    IF b = 0
    THEN IF a = 0 THEN <<"N", "a", "N">>
         ELSE (IF a < 0 THEN <<"-">> ELSE <<>>)
                  \o <<"I", "n", "f", "i", "n", "i", "t", "y">>
    ELSE LET q == Abs(a) \div Abs(b)
             r == Abs(a) % Abs(b)
             neg == a # 0 /\ ((a < 0) # (b < 0))
         IN  (IF neg THEN <<"-">> ELSE <<>>) \o NatStr(q)
                 \o (IF r = 0 THEN <<>> ELSE <<".", "5">>)

\* a test b === 0 that never holds
IsZeroNever(b) == FALSE

\* the test b === 0 of handleDiv (utils.js 381)
IsZero(b) == b.n = 0

\* handleDiv: the text returned and the number of errors reported; no
\* statement of it throws on a text argument
handleDiv(args) ==
    LET evaluatedArgs == cleanQuotes(replaceVariables(args, <<>>))
        parts == splitArgs(evaluatedArgs)
    IN  IF Len(parts) >= 2
        THEN LET a == ParseFloat(cleanQuotes(parts[1]))
                 b == ParseFloat(cleanQuotes(parts[2]))
             IN  IF a.nan \/ b.nan
                 THEN [ret |-> <<"0">>, errors |-> 1, threw |-> FALSE]
                 ELSE IF IsZero(b)
                 THEN [ret |-> <<"0">>, errors |-> 1, threw |-> FALSE]
                 ELSE [ret |-> QuotientText(a.n, b.n), errors |-> 0,
                       threw |-> FALSE]
        ELSE [ret |-> <<"0">>, errors |-> 0, threw |-> FALSE]

\* operands as they can be written: bare, in quotes, between blanks
Decorations == {"bare", "quoted", "padded"}
Decorate(d, t) ==
    CASE d = "bare"   -> t
      [] d = "quoted" -> <<"\"">> \o t \o <<"\"">>
      [] d = "padded" -> <<" ">> \o t \o <<" ">>
DivDividends ==
    {String(n) : n \in (0 - MaxOperand)..MaxOperand} \cup {<<"x">>, <<>>}
ZeroTexts == {<<"0">>, <<"-", "0">>, <<"0", "0">>}
DivDivisors ==
    ZeroTexts \cup {String(n) : n \in {-2, -1, 1, 2}} \cup {<<"x">>}
DivArgs ==
    {Decorate(d1, a) \o <<";">> \o Decorate(d2, b) :
        d1 \in Decorations, a \in DivDividends,
        d2 \in Decorations, b \in DivDivisors}
    \cup DivDividends

\* div[args] is called
Div ==
    /\ call.fn = "none"
    /\ \E args \in DivArgs :
          LET out == handleDiv(args)
          IN  call' = [fn |-> "div", args |-> args, ret |-> out.ret,
                       errors |-> out.errors, threw |-> out.threw]
    /\ UNCHANGED <<runVars, reqVars, plugVars, instances>>

\* the caller goes on after the call
DivReturns ==
    /\ call.fn = "div" /\ ~call.threw
    /\ call' = NoCall
    /\ UNCHANGED <<runVars, reqVars, plugVars, instances>>

NextDiv == Div \/ DivReturns

SpecDiv == Init /\ [][NextDiv]_vars

\* the argument text is a;z with a an integer literal, bare, quoted or
\* between blanks, and z a bare or blank-surrounded literal of zero
ZeroDivision(args) ==
    \E d1 \in Decorations, d2 \in {"bare", "padded"},
       n \in (0 - MaxOperand)..MaxOperand, z \in ZeroTexts :
        args = Decorate(d1, String(n)) \o <<";">> \o Decorate(d2, z)

----------------------------------------------------------------------------
(* execute on the content of a file that holds require directives          *)
(* (interpreter.js 406-437, 444-490).  A text is a sequence of lines, a    *)
(* directive stands on a line of its own, paths are names; file contents   *)
(* hold no "$" (a replacement pattern of String.prototype.replace).        *)

MaxFileLen == 2

Req(p) == Line("require", "", p, <<>>, <<>>)

\* the line "# Circular require skipped"
Skipped == Comment

\* processedCode.replace(match[0], text): the first occurrence is replaced
ReplaceFirst(text, l, by) ==
    LET at == {i \in 1..Len(text) : text[i] = l}
    IN  IF at = {} THEN text
        ELSE LET i == CHOOSE i \in at : \A j \in at : i <= j
             IN  SubSeq(text, 1, i - 1) \o by \o SubSeq(text, i + 1, Len(text))

\* an activation of processRequires: its argument, the index in it where
\* the search for the next directive starts, the index of the directive
\* whose file is being resolved, and processedCode
ReqFrame(text) == [code |-> text, next |-> 1, at |-> 0, processedCode |-> text]

\* file "a" is the program, file "b" may be required, no file "m" exists
Paths == {"a", "b", "m"}
FileTexts(own) ==
    SeqsUpTo({Req("a"), Req("b"), Req("m"), own}, MaxFileLen)
File(text) == [exists |-> TRUE, text |-> text]
NoFile == [exists |-> FALSE, text |-> <<>>]
FileSystems ==
    {[p \in Paths |-> CASE p = "a" -> File(ta) [] p = "b" -> File(tb)
                         [] p = "m" -> NoFile] :
        ta \in FileTexts(Log), tb \in FileTexts(Var("x", 1))}

InitRequire ==
    /\ InitRun
    /\ call = NoCall
    /\ files \in FileSystems
    /\ loadedFiles = {}
    /\ reads = [p \in Paths |-> 0]
    /\ resolve = NoResolve
    /\ plugins = <<>>
    /\ functions = <<>>
    /\ instances = <<>>

\* execute(code) on the content of file "a", up to the call of
\* processRequires (interpreter.js 408-413)
ExecuteFile ==
    /\ phase = "idle"
    /\ code' = files["a"].text
    /\ IF files["a"].text = <<>>
       THEN /\ phase' = "done"
            /\ result' = "false"
            /\ UNCHANGED resolve
       ELSE /\ phase' = "resolving"
            /\ result' = "none"
            /\ resolve' = [NoResolve EXCEPT !.stack = <<ReqFrame(files["a"].text)>>]
    /\ UNCHANGED <<lines, variables, shouldExit, exitCode, shouldBreak,
                   shouldContinue, stack, execCount, condCount, passCount,
                   errCount, lastExec, call, files, loadedFiles, reads,
                   plugins, functions, instances>>

\* a test of this.loadedFiles that never finds the path
LoadedNever(p, loaded) == FALSE

\* this.loadedFiles.has(filePath) (interpreter.js 454)
Loaded(p, loaded) == p \in loaded

\* the top activation of processRequires returns text r
ReturnText(r, miss) ==
    LET n == Len(resolve.stack)
    IN  IF n = 1
        THEN /\ resolve' = [stack |-> <<>>, ret |-> r,
                            missing |-> resolve.missing \/ miss]
             /\ phase' = "resolved"
        ELSE LET c == resolve.stack[n - 1]
                 back == [c EXCEPT
                            !.processedCode =
                                ReplaceFirst(c.processedCode, c.code[c.at], r),
                            !.next = c.at + 1]
             IN  /\ resolve' = [resolve EXCEPT
                        !.stack = SubSeq(resolve.stack, 1, n - 2) \o <<back>>,
                        !.missing = resolve.missing \/ miss]
                 /\ phase' = phase

\* one turn of the loop of processRequires (interpreter.js 449-487)
ProcessRequires ==
    /\ phase = "resolving"
    /\ LET n == Len(resolve.stack)
           f == resolve.stack[n]
           m == FirstKind(f.code, f.next, "require")
           p == f.code[m].v
       IN  IF m = 0
           THEN ReturnText(f.processedCode, FALSE)
                    /\ UNCHANGED <<loadedFiles, reads>>
           ELSE IF Loaded(p, loadedFiles)
           THEN /\ resolve' = [resolve EXCEPT !.stack[n] =
                      [f EXCEPT !.processedCode =
                                    ReplaceFirst(f.processedCode, f.code[m],
                                                 <<Skipped>>),
                                !.next = m + 1]]
                /\ UNCHANGED <<phase, loadedFiles, reads>>
           ELSE IF ~files[p].exists
           THEN ReturnText(f.processedCode, TRUE)
                    /\ UNCHANGED <<loadedFiles, reads>>
           ELSE /\ loadedFiles' = loadedFiles \cup {p}
                /\ reads' = [reads EXCEPT ![p] = @ + 1]
                /\ resolve' = [resolve EXCEPT !.stack =
                      SubSeq(resolve.stack, 1, n - 1)
                          \o <<[f EXCEPT !.at = m], ReqFrame(files[p].text)>>]
                /\ UNCHANGED phase
    /\ UNCHANGED <<code, lines, variables, shouldExit, exitCode, shouldBreak,
                   shouldContinue, stack, result, execCount, condCount,
                   passCount, errCount, lastExec, call, files, plugins,
                   functions, instances>>

\* execute after processRequires: validation and the line array
\* (interpreter.js 415-427)
ValidateAndRun ==
    /\ phase = "resolved"
    /\ LET src == resolve.ret
           ok == validateCode(src) = <<>>
           ls == FilterLines(src)
       IN  /\ phase' = IF ok THEN "running" ELSE "done"
           /\ result' = IF ok THEN "none" ELSE "false"
           /\ lines' = IF ok THEN ls ELSE <<>>
           /\ stack' = IF ok
                       THEN <<Frame("execute", "run", 1, 0, 0, 0, NaN, NaN,
                                    FALSE, "")>>
                       ELSE <<>>
           /\ execCount' = Zeros(Len(ls))
           /\ condCount' = Zeros(Len(ls))
           /\ passCount' = Zeros(Len(ls))
           /\ errCount' = Zeros(Len(ls))
    /\ UNCHANGED <<code, variables, shouldExit, exitCode, shouldBreak,
                   shouldContinue, lastExec>>
    /\ UNCHANGED unitVars

NextRequire ==
    \/ ExecuteFile
    \/ ProcessRequires
    \/ ValidateAndRun
    \/ ProcessLine
    \/ Finish

SpecRequire == InitRequire /\ [][NextRequire]_vars /\ WF_vars(NextRequire)
\* the number of lines of kind k in text t
Count(t, k) == Cardinality({i \in 1..Len(t) : t[i].k = k})

\* processRequires has returned to execute
Resolved == phase \in {"resolved", "running", "done"} /\ code # <<>>

(* C15: require resolution terminates for every file system and require    *)
(* graph, cycles included; no file is read more than once; every inlined   *)
(* file appears once per read; and when no file is missing no directive is *)
(* left: each directive naming an already-resolved path has become the     *)
(* skip marker.                                                            *)
C15_RequireTerminates ==
    /\ <>(phase = "done")
    /\ [](\A p \in DOMAIN reads : reads[p] <= 1)
    /\ [](Resolved =>
            /\ Count(resolve.ret, "log")
                   = Count(files["a"].text, "log") * (1 + reads["a"])
            /\ Count(resolve.ret, "var")
                   = Count(files["b"].text, "var") * reads["b"]
            /\ ~resolve.missing =>
                  /\ Count(resolve.ret, "require") = 0
                  /\ Count(resolve.ret, "comment")
                         = Count(files["a"].text, "require") * (1 + reads["a"])
                           + Count(files["b"].text, "require") * reads["b"]
                           - (reads["a"] + reads["b"]))

\* a requires b and b requires a: both were read once and one directive
\* became the marker
C15_Witness ==
    /\ Resolved /\ ~resolve.missing
    /\ \E i \in 1..Len(files["a"].text) : files["a"].text[i] = Req("b")
    /\ \E i \in 1..Len(files["b"].text) : files["b"].text[i] = Req("a")
    /\ reads["a"] = 1 /\ reads["b"] = 1
    /\ Count(resolve.ret, "comment") >= 1
(* C16, as claimed: when a require directive names a file that does not    *)
(* exist, the program is not executed: no statement runs and execute       *)
(* reports failure.                                                        *)
C16_Original ==
    (Resolved /\ resolve.missing) =>
        /\ NoHandlerRan
        /\ phase = "done" => result = "false"
----------------------------------------------------------------------------
(* Plugin loading and registration at construction (plugin-loader:          *)
(* loadPlugins 18-50, loadAddon 56-101, registerPlugins 108-132;            *)
(* interpreter.js 387-396).  A handler is named by where it comes from:     *)
(* 0 for a built-in, i for the i-th addon file of the directory.            *)

MaxAddons == 3

\* one [funcName, funcHandler] of a plugin's functions object
Fn(k) == [k |-> k, isFn |-> TRUE]
NotFn(k) == [k |-> k, isFn |-> FALSE]

\* addon modules: a name ("" when the property is missing) and functions
AddonNames == {"p", "q", ""}
AddonFunctions == {<<>>, <<Fn("hello")>>, <<Fn("log")>>,
                   <<Fn("hello"), NotFn("log")>>}
AddonFiles == {[name |-> n, functions |-> fs] :
                  n \in AddonNames, fs \in AddonFunctions}
AddonDirs == SeqsUpTo(AddonFiles, MaxAddons)

\* this.functions after the constructor's literal: the built-in log
BuiltIns == [k \in {"log"} |-> 0]

InitPlugins ==
    /\ InitRun
    /\ \E dir \in AddonDirs :
          call = [fn |-> "loadPlugins", addons |-> dir, next |-> 1, reg |-> 1]
    /\ files = <<>>
    /\ loadedFiles = {}
    /\ reads = <<>>
    /\ resolve = NoResolve
    /\ plugins = <<>>
    /\ functions = BuiltIns
    /\ instances = <<>>

\* loadAddon on the next addon file: a module without name is skipped,
\* another is stored under its name with this.plugins.set
LoadAddon ==
    /\ call.fn = "loadPlugins"
    /\ call.next <= Len(call.addons)
    /\ LET a == call.addons[call.next]
       IN  plugins' = IF a.name = "" THEN plugins
                      ELSE MapSetEntry(plugins, a.name,
                               [functions |-> a.functions, file |-> call.next])
    /\ call' = [call EXCEPT !.next = @ + 1]
    /\ UNCHANGED <<runVars, reqVars, functions, instances>>

\* the inner loop of registerPlugins over the entries of one plugin
RECURSIVE RegisterEntries(_, _, _)
RegisterEntries(map, entries, file) ==
    IF entries = <<>> THEN map
    ELSE LET e == Head(entries)
             m == IF e.isFn
                  THEN [k \in DOMAIN map \cup {e.k} |->
                           IF k = e.k THEN file ELSE map[k]]
                  ELSE map
         IN  RegisterEntries(m, Tail(entries), file)

\* one turn of the outer loop of registerPlugins, in the order of the Map
RegisterPlugin ==
    /\ call.fn = "loadPlugins"
    /\ call.next > Len(call.addons)
    /\ call.reg <= Len(plugins)
    /\ LET pl == plugins[call.reg].v
       IN  functions' = RegisterEntries(functions, pl.functions, pl.file)
    /\ call' = [call EXCEPT !.reg = @ + 1]
    /\ UNCHANGED <<runVars, reqVars, plugins, instances>>

NextPlugins == LoadAddon \/ RegisterPlugin

SpecPlugins == InitPlugins /\ [][NextPlugins]_vars

\* registerPlugins has returned
Registered17 ==
    /\ call.fn = "loadPlugins"
    /\ call.next > Len(call.addons)
    /\ call.reg > Len(plugins)

\* the addon files, in load order, that supply a function under name f
Suppliers(f) ==
    {i \in 1..Len(call.addons) :
        /\ call.addons[i].name # ""
        /\ \E j \in 1..Len(call.addons[i].functions) :
              call.addons[i].functions[j] = Fn(f)}

(* C17, as claimed: after registration every name for which a loaded       *)
(* plugin supplies a function maps to the handler of the last such plugin  *)
(* in load order, also over a built-in; an entry that is no function       *)
(* leaves the existing entry in place; every other entry is unchanged.     *)
C17_Original ==
    Registered17 =>
        \A f \in {"log", "hello"} :
            IF Suppliers(f) # {}
            THEN f \in DOMAIN functions /\ functions[f] = MaxOf(Suppliers(f))
            ELSE IF f \in DOMAIN BuiltIns
                 THEN f \in DOMAIN functions /\ functions[f] = BuiltIns[f]
                 ELSE f \notin DOMAIN functions
----------------------------------------------------------------------------
(* Two interpreter instances (interpreter.js 321-382): the constructor     *)
(* gives each instance a Map of its own and flags of its own; a handler is *)
(* bound to its instance and reads and writes this.variables and the flags *)
(* of `this`.  Each instance runs execute on a program of statements;      *)
(* every awaited executeLine, a sleep among them, is a point where the     *)
(* other instance may run.                                                  *)

MaxStmts == 2

Sleep == Line("sleep", "", "", String(1), <<>>)

InstanceIds == {1, 2}

\* the statements of the program given to instance i
InstanceAlphabet(i) ==
    IF i = 1 THEN {Var("x", 1), Inc("x"), Sleep, Exit(2), Break}
             ELSE {Var("x", 5), Inc("x"), Sleep, Exit(3), Continue}

\* new EliosInterpreter() followed by the call of execute(src)
NewInstance(src) ==
    [lines |-> src, i |-> 1, returned |-> FALSE, variables |-> <<>>,
     shouldExit |-> FALSE, exitCode |-> 0,
     shouldBreak |-> FALSE, shouldContinue |-> FALSE]

InitInstances ==
    /\ InitRun
    /\ call = NoCall
    /\ files = <<>>
    /\ loadedFiles = {}
    /\ reads = <<>>
    /\ resolve = NoResolve
    /\ plugins = <<>>
    /\ functions = <<>>
    /\ \E p1 \in SeqsUpTo(InstanceAlphabet(1), MaxStmts),
          p2 \in SeqsUpTo(InstanceAlphabet(2), MaxStmts) :
          instances = <<NewInstance(p1), NewInstance(p2)>>

\* every instance works on one store, that of the first instance
ThisShared(i) == 1

\* `this` of a handler bound by the constructor of instance i
This(i) == i

\* executeLine of instance `me` on line l, the handler working on the
\* fields of instance `this`: insts after the call
ExecuteLineOn(insts, me, this, l) ==
    LET inv == Invokes(l, insts[me].shouldExit)
        t   == insts[this]
        eff == [t EXCEPT
                  !.variables = IF inv /\ l.k \in {"var", "inc"}
                                THEN handleVar(l, t.variables) ELSE @,
                  !.shouldExit = @ \/ (inv /\ l.k = "exit"),
                  !.exitCode = IF inv /\ l.k = "exit" THEN handleExit(l) ELSE @,
                  !.shouldBreak = @ \/ (inv /\ l.k = "break"),
                  !.shouldContinue = @ \/ (inv /\ l.k = "continue")]
    IN  [insts EXCEPT ![this] = eff]

\* one turn of the loop of execute of instance me (interpreter.js 427-430)
TurnOn(insts, me) ==
    LET st   == insts[me]
        done == ExecuteLineOn(insts, me, This(me), st.lines[st.i])
    IN  [done EXCEPT ![me].i = st.i + 1]

\* the loop of execute goes on
Running(st) == ~st.returned /\ st.i <= Len(st.lines) /\ ~st.shouldExit

InstanceStep(me) ==
    /\ Running(instances[me])
    /\ instances' = TurnOn(instances, me)
    /\ UNCHANGED <<runVars, reqVars, plugVars, call>>

\* execute of instance me returns true
InstanceReturns(me) ==
    /\ ~instances[me].returned
    /\ ~Running(instances[me])
    /\ instances' = [instances EXCEPT ![me].returned = TRUE]
    /\ UNCHANGED <<runVars, reqVars, plugVars, call>>

NextInstances == \E me \in InstanceIds : InstanceStep(me) \/ InstanceReturns(me)

SpecInstances == InitInstances /\ [][NextInstances]_vars

\* the fields of an instance after its program ran with no other instance
RECURSIVE RunAlone(_)
RunAlone(st) ==
    IF ~Running(st) THEN [st EXCEPT !.returned = TRUE]
    ELSE LET l   == st.lines[st.i]
             inv == Invokes(l, st.shouldExit)
         IN  RunAlone([st EXCEPT
                 !.i = @ + 1,
                 !.variables = IF inv /\ l.k \in {"var", "inc"}
                               THEN handleVar(l, @) ELSE @,
                 !.shouldExit = @ \/ (inv /\ l.k = "exit"),
                 !.exitCode = IF inv /\ l.k = "exit" THEN handleExit(l) ELSE @,
                 !.shouldBreak = @ \/ (inv /\ l.k = "break"),
                 !.shouldContinue = @ \/ (inv /\ l.k = "continue")])

StoreAndFlags(st) ==
    <<st.variables, st.shouldExit, st.exitCode, st.shouldBreak,
      st.shouldContinue>>

(* C18: whatever the interleaving of the statements of two programs run on *)
(* two instances, when both executions have returned each instance's       *)
(* variable store and control flags are those its program gives when it    *)
(* runs alone; and no step of one instance changes a field of the other.   *)
C18_InstancesIsolated ==
    /\ [](instances # <<>> =>
            ((\A me \in InstanceIds : instances[me].returned) =>
                \A me \in InstanceIds :
                    StoreAndFlags(instances[me]) =
                        StoreAndFlags(RunAlone(NewInstance(instances[me].lines)))))
    /\ [][\A me \in InstanceIds :
             (instances # <<>> /\ instances'[me] # instances[me]) =>
                 \A other \in InstanceIds \ {me} :
                     instances'[other] = instances[other]]_vars

\* both programs write x and the second ran between two statements of the
\* first; both executions have returned
C18_Witness ==
    /\ instances # <<>>
    /\ instances[1].lines = <<Var("x", 1), Inc("x")>>
    /\ instances[2].lines = <<Sleep, Var("x", 5)>>
    /\ instances[1].returned /\ instances[2].returned
    /\ instances[1].variables = [x |-> String(2)]
    /\ instances[2].variables = [x |-> String(5)]
----------------------------------------------------------------------------
(* handleTypeOf (utils.js 1051-1078).  The argument texts hold no "§" and  *)
(* the store is empty, so evaluateNestedFunctions and replaceVariables     *)
(* return their argument.                                                   *)

MaxPieces == 2

RECURSIVE CountDigits(_)
\* length of the run of digits at the head of s
CountDigits(s) ==
    IF s = <<>> \/ ~IsDigit(Head(s)) THEN 0 ELSE 1 + CountDigits(Tail(s))

\* parseFloat(s) for texts without exponent: "NaN", or whether the value
\* of the longest prefix [ws] [sign] digits [. digits] | . digits is an
\* integer (Number.isInteger) or has a fractional part
NumberClass(s) ==
    LET t     == TrimLeft(s)
        body  == IF t # <<>> /\ Head(t) \in {"-", "+"} THEN Tail(t) ELSE t
        nInt  == CountDigits(body)
        after == Drop(body, nInt)
        dot   == after # <<>> /\ Head(after) = "."
        nFrac == IF dot THEN CountDigits(Tail(after)) ELSE 0
        frac  == IF dot THEN SubSeq(Tail(after), 1, nFrac) ELSE <<>>
    IN  IF nInt = 0 /\ nFrac = 0 THEN "NaN"
        ELSE IF \E p \in 1..Len(frac) : frac[p] # "0" THEN "fraction"
        ELSE "integer"

\* the word w stands in s at index i
StartsAt(s, i, w) ==
    i + Len(w) - 1 <= Len(s) /\ SubSeq(s, i, i + Len(w) - 1) = w

RECURSIVE SkipWs(_, _)
SkipWs(s, i) == IF i <= Len(s) /\ s[i] = " " THEN SkipWs(s, i + 1) ELSE i

\* JSON.parse as a recogniser: each operator takes the index where its
\* phrase starts and gives the index after it, 0 when there is none.
\* The texts hold no backslash and no control character.
JsonString(s, i) ==
    IF i > Len(s) \/ s[i] # "\"" THEN 0
    ELSE LET close == {j \in (i + 1)..Len(s) : s[j] = "\""}
         IN  IF close = {} THEN 0
             ELSE (CHOOSE j \in close : \A k \in close : j <= k) + 1

JsonNumber(s, i) ==
    LET j     == IF i <= Len(s) /\ s[i] = "-" THEN i + 1 ELSE i
        nInt  == CountDigits(Drop(s, j - 1))
        k     == j + nInt
        dot   == k <= Len(s) /\ s[k] = "."
        nFrac == IF dot THEN CountDigits(Drop(s, k)) ELSE 0
    IN  IF nInt = 0 \/ (nInt > 1 /\ s[j] = "0") THEN 0
        ELSE IF dot THEN (IF nFrac = 0 THEN 0 ELSE k + 1 + nFrac)
        ELSE k

RECURSIVE JsonValue(_, _)
RECURSIVE JsonElements(_, _)
RECURSIVE JsonMembers(_, _)
JsonValue(s, i) ==
    LET j == SkipWs(s, i)
    IN  IF j > Len(s) THEN 0
        ELSE IF StartsAt(s, j, <<"n", "u", "l", "l">>) THEN j + 4
        ELSE IF StartsAt(s, j, <<"t", "r", "u", "e">>) THEN j + 4
        ELSE IF StartsAt(s, j, <<"f", "a", "l", "s", "e">>) THEN j + 5
        ELSE IF s[j] = "\"" THEN JsonString(s, j)
        ELSE IF s[j] = "["
             THEN LET k == SkipWs(s, j + 1)
                  IN  IF k <= Len(s) /\ s[k] = "]" THEN k + 1
                      ELSE JsonElements(s, j + 1)
        ELSE IF s[j] = "{"
             THEN LET k == SkipWs(s, j + 1)
                  IN  IF k <= Len(s) /\ s[k] = "}" THEN k + 1
                      ELSE JsonMembers(s, j + 1)
        ELSE JsonNumber(s, j)

JsonElements(s, i) ==
    LET e == JsonValue(s, i)
        k == SkipWs(s, e)
    IN  IF e = 0 \/ k > Len(s) THEN 0
        ELSE IF s[k] = "]" THEN k + 1
        ELSE IF s[k] = "," THEN JsonElements(s, k + 1)
        ELSE 0

JsonMembers(s, i) ==
    LET n == JsonString(s, SkipWs(s, i))
        c == SkipWs(s, n)
        e == IF n = 0 \/ c > Len(s) \/ s[c] # ":" THEN 0 ELSE JsonValue(s, c + 1)
        k == SkipWs(s, e)
    IN  IF e = 0 \/ k > Len(s) THEN 0
        ELSE IF s[k] = "}" THEN k + 1
        ELSE IF s[k] = "," THEN JsonMembers(s, k + 1)
        ELSE 0

\* JSON.parse(s) does not throw
JsonParses(s) ==
    LET e == JsonValue(s, 1) IN e # 0 /\ SkipWs(s, e) > Len(s)

handleTypeOf(args) ==
    LET evaluatedArgs == cleanQuotes(replaceVariables(args, <<>>))
        type ==
            IF evaluatedArgs \in {<<"t", "r", "u", "e">>,
                                  <<"f", "a", "l", "s", "e">>}
            THEN "bool"
            ELSE IF Trim(evaluatedArgs) = <<>> THEN "empty"
            ELSE IF NumberClass(evaluatedArgs) # "NaN"
                 THEN (IF NumberClass(evaluatedArgs) = "integer"
                       THEN "int" ELSE "float")
            ELSE IF JsonParses(evaluatedArgs) THEN "json"
            ELSE "string"
    IN  [text |-> evaluatedArgs, ret |-> type]

\* pieces of argument texts
TypePieces ==
    {<<"t", "r", "u", "e">>, <<"f", "a", "l", "s", "e">>,
     <<"n", "u", "l", "l">>, <<"1">>, <<"-", "2">>, <<"0", "7">>,
     <<"1", ".", "5">>, <<"1", ".", "0">>, <<".", "5">>, <<".">>,
     <<"[">>, <<"]">>, <<"[", "1", ",">>, <<"[", "1", "]">>, <<"{", "}">>,
     <<"{", "\"", "a", "\"", ":", "1", "}">>,
     <<"{", "\"", "a", "\"", ":">>, <<"}">>,
     <<"\"">>, <<"\"", "\"">>, <<"'">>, <<" ">>, <<"a">>}

RECURSIVE Concat(_)
Concat(ts) == IF ts = <<>> THEN <<>> ELSE Head(ts) \o Concat(Tail(ts))

TypeArgs == {Concat(ps) : ps \in SeqsUpTo(TypePieces, MaxPieces)}

TypeOf ==
    /\ call = NoCall
    /\ \E args \in TypeArgs :
          LET r == handleTypeOf(args)
          IN  call' = [fn |-> "typeOf", args |-> args, text |-> r.text,
                       ret |-> r.ret]
    /\ UNCHANGED <<runVars, reqVars, plugVars, instances>>

TypeOfReturns ==
    /\ call.fn = "typeOf"
    /\ call' = NoCall
    /\ UNCHANGED <<runVars, reqVars, plugVars, instances>>

NextTypeOf == TypeOf \/ TypeOfReturns

SpecTypeOf == Init /\ [][NextTypeOf]_vars

\* the class of a resolved text by the first matching rule of the claimed
\* order: bool, int, float, json, string
ClaimedType(t) ==
    IF t \in {<<"t", "r", "u", "e">>, <<"f", "a", "l", "s", "e">>} THEN "bool"
    ELSE IF NumberClass(t) = "integer" THEN "int"
    ELSE IF NumberClass(t) = "fraction" THEN "float"
    ELSE IF JsonParses(t) THEN "json"
    ELSE "string"

(* C19, as claimed: typeOf gives its resolved argument the class of the    *)
(* first matching rule in the order bool ("true" or "false"), int          *)
(* (integer-parseable), float (otherwise numeric-parseable), json (valid   *)
(* JSON), string (everything else, the empty string included).             *)
C19_Original ==
    call.fn = "typeOf" => call.ret = ClaimedType(call.text)
----------------------------------------------------------------------------
(* handleWriteFile (utils.js 753-790) and handleReadFile (utils.js         *)
(* 700-728).  The file system maps a path to its content; the texts hold   *)
(* no "§" and no "$", so evaluateNestedFunctions and replaceVariables      *)
(* return their argument.                                                   *)

MaxContent == 3

RECURSIVE Join(_)
\* parts.join(';')
Join(parts) ==
    IF parts = <<>> THEN <<>>
    ELSE IF Len(parts) = 1 THEN parts[1]
    ELSE parts[1] \o <<";">> \o Join(Tail(parts))

\* fs.existsSync
Exists(fs, path) == path \in DOMAIN fs /\ fs[path].exists

\* handleWriteFile: the file system after the call and the returned value
handleWriteFile(args, fs) ==
    LET evaluatedArgs == cleanQuotes(replaceVariables(args, <<>>))
        parts == splitArgs(evaluatedArgs)
    IN  IF Len(parts) >= 2
        THEN LET filePath == cleanQuotes(parts[1])
                 content  == cleanQuotes(Join(Tail(parts)))
             IN  [fs |-> MapSet(fs, filePath, File(content)), ret |-> "true"]
        ELSE [fs |-> fs, ret |-> "false"]

\* handleReadFile: the returned text
handleReadFile(args, fs) ==
    LET evaluatedArgs == cleanQuotes(replaceVariables(args, <<>>))
    IN  IF ~Exists(fs, evaluatedArgs) THEN <<>> ELSE fs[evaluatedArgs].text

\* the path as written in the two directives, and the contents
FilePaths == {<<"f">>, <<"\"", "f", "\"">>}
ContentAlphabet == {"a", " ", ";", "\"", "'"}
Contents == SeqsUpTo(ContentAlphabet, MaxContent)

\* §writeFile[path;content] on a file system without the file
WriteFile ==
    /\ call = NoCall
    /\ files = <<>>
    /\ \E path \in FilePaths, content \in Contents :
          LET w == handleWriteFile(path \o <<";">> \o content, files)
          IN  /\ files' = w.fs
              /\ call' = [fn |-> "writeFile", path |-> path,
                          content |-> content, ret |-> w.ret]
    /\ UNCHANGED <<runVars, loadedFiles, reads, resolve, plugVars, instances>>

\* §readFile[path] after it
ReadFile ==
    /\ call.fn = "writeFile"
    /\ call' = [fn |-> "readFile", path |-> call.path,
                content |-> call.content, wrote |-> call.ret,
                ret |-> handleReadFile(call.path, files)]
    /\ UNCHANGED <<runVars, reqVars, plugVars, instances>>

NextFiles == WriteFile \/ ReadFile

SpecFiles == Init /\ [][NextFiles]_vars

(* C20, as claimed: readFile after writeFile on the same path returns      *)
(* exactly the content given to writeFile, whatever the content:           *)
(* surrounding quotes, semicolons and leading or trailing blanks included. *)
C20_Original ==
    call.fn = "readFile" => call.ret = call.content
----------------------------------------------------------------------------
(* splitArgs (utils.js 33-65) called on its own *)

MaxArgs == 4

ArgAlphabet == {"a", ";", "[", "]", "\"", "'"}
ArgTexts == SeqsUpTo(ArgAlphabet, MaxArgs)

SplitArgs ==
    /\ call = NoCall
    /\ \E args \in ArgTexts :
          call' = [fn |-> "splitArgs", args |-> args, ret |-> splitArgs(args)]
    /\ UNCHANGED <<runVars, reqVars, plugVars, instances>>

SplitArgsReturns ==
    /\ call.fn = "splitArgs"
    /\ call' = NoCall
    /\ UNCHANGED <<runVars, reqVars, plugVars, instances>>

NextSplit == SplitArgs \/ SplitArgsReturns

SpecSplit == Init /\ [][NextSplit]_vars

\* the quote that is open after the first i characters of t ("" for none):
\* a quote character opens a string, the same character closes it
RECURSIVE OpenQuote(_, _)
OpenQuote(t, i) ==
    IF i = 0 THEN ""
    ELSE LET q == OpenQuote(t, i - 1)
         IN  IF q = "" THEN (IF t[i] \in QuoteChars THEN t[i] ELSE "")
             ELSE IF t[i] = q THEN "" ELSE q

\* character i of t stands inside a quoted string or is one of its quotes
Quoted(t, i) == OpenQuote(t, i - 1) # "" \/ OpenQuote(t, i) # ""

\* opening minus closing brackets outside strings among the first i characters
BracketDepth(t, i) ==
    Cardinality({j \in 1..i : t[j] = "[" /\ ~Quoted(t, j)})
      - Cardinality({j \in 1..i : t[j] = "]" /\ ~Quoted(t, j)})

\* the semicolons at bracket depth zero and outside quotes
TopSemicolons(t) ==
    {i \in 1..Len(t) : t[i] = ";" /\ ~Quoted(t, i) /\ BracketDepth(t, i) = 0}

\* the segments of t between the positions of cuts, in order
RECURSIVE Segments(_, _, _)
Segments(t, cuts, from) ==
    LET next == {c \in cuts : c >= from}
    IN  IF next = {} THEN <<SubSeq(t, from, Len(t))>>
        ELSE LET c == CHOOSE c \in next : \A d \in next : c <= d
             IN  <<SubSeq(t, from, c - 1)>> \o Segments(t, cuts, c + 1)

(* C21, as claimed: splitArgs cuts its input exactly at the semicolons at  *)
(* bracket depth zero and outside quotes and returns the segments in       *)
(* order, so that n such semicolons give n + 1 parts.                      *)
C21_Original ==
    call.fn = "splitArgs" =>
        /\ call.ret = Segments(call.args, TopSemicolons(call.args), 1)
        /\ Len(call.ret) = Cardinality(TopSemicolons(call.args)) + 1

\* the segments without an empty last one
DropEmptyLast(parts) ==
    IF parts[Len(parts)] = <<>> THEN SubSeq(parts, 1, Len(parts) - 1) ELSE parts

(* C21: splitArgs cuts its input exactly at the semicolons at bracket      *)
(* depth zero and outside quotes and returns the segments in order, except *)
(* that an empty segment after the last such semicolon is left out: n      *)
(* such semicolons give n + 1 parts when text follows the last one, and n  *)
(* parts otherwise (none for the empty input).                             *)
C21_SplitAtTopLevel ==
    call.fn = "splitArgs" =>
        LET segs == Segments(call.args, TopSemicolons(call.args), 1)
        IN  /\ call.ret = DropEmptyLast(segs)
            /\ Len(call.ret) = Cardinality(TopSemicolons(call.args))
                                 + (IF segs[Len(segs)] = <<>> THEN 0 ELSE 1)

\* a semicolon between brackets, then one at depth zero with nothing after
C21_Witness ==
    /\ call.fn = "splitArgs"
    /\ call.args = <<"[", ";", "]", ";">>
    /\ call.ret = << <<"[", ";", "]">> >>
----------------------------------------------------------------------------
(* C22, as claimed: when a while loop or a for loop starts a pass of its   *)
(* body, the break flag and the continue flag are both false, whatever     *)
(* ran before the loop or in the pass before.                              *)
C22_Original ==
    [][(phase = "running" /\ passCount' # passCount) =>
           ~shouldBreak' /\ ~shouldContinue']_vars
----------------------------------------------------------------------------
(* execute called again on the same instance (interpreter.js 406-437):     *)
(* the constructor sets the flags (374-378), execute assigns none of them. *)

MaxRuns == 2

RerunPrograms ==
    SeqsUpTo({Log, Var("x", 1), Exit(2), Break, Continue}, 2)
      \cup {<<For("i", 0, 2), Log, EndFor>>,
            <<WhileLt("x", 2), Inc("x"), EndWhile>>,
            <<If("true"), Log, EndIf>>}

\* the first call of execute on a new instance
ExecuteFirst ==
    /\ phase = "idle"
    /\ call = NoCall
    /\ call' = [fn |-> "execute", run |-> 1]
    /\ \E src \in RerunPrograms : Execute(src)
    /\ UNCHANGED <<reqVars, plugVars, instances>>

\* a further call of execute after the one before returned
ExecuteAgain ==
    /\ phase = "done"
    /\ call.fn = "execute"
    /\ call.run < MaxRuns
    /\ call' = [call EXCEPT !.run = @ + 1]
    /\ \E src \in RerunPrograms : Execute(src)
    /\ UNCHANGED <<reqVars, plugVars, instances>>

NextRerun ==
    \/ ExecuteFirst
    \/ ExecuteAgain
    \/ ProcessLine
    \/ ProcessCondition
    \/ ProcessWhile
    \/ ProcessFor
    \/ Finish

SpecRerun == Init /\ [][NextRerun]_vars

(* C23, as claimed: every call of execute starts with the exit, break and  *)
(* continue flags cleared, so that a program without blocks and without    *)
(* exit runs each of its statements once, also on an instance whose run    *)
(* before ended through exit.                                              *)
C23_Original ==
    /\ [][(phase # "running" /\ phase' = "running") =>
             ~shouldExit' /\ ~shouldBreak' /\ ~shouldContinue']_vars
    /\ []((/\ phase = "done"
           /\ code # <<>>
           /\ NoBlock(code)
           /\ \A p \in 1..Len(code) : code[p].k # "exit")
            => \A p \in 1..Len(lines) : execCount[p] = 1)
----------------------------------------------------------------------------
(* processRequires called a second time on the same source and the same    *)
(* instance (interpreter.js 444-490): this.loadedFiles is created by the   *)
(* constructor (324) and processRequires only adds to it (469).            *)

\* the first resolution returned; the same source is resolved again
ResolveAgain ==
    /\ phase = "resolved"
    /\ call = NoCall
    /\ call' = [fn |-> "processRequires", first |-> resolve.ret]
    /\ resolve' = [NoResolve EXCEPT !.stack = <<ReqFrame(code)>>]
    /\ phase' = "resolving"
    /\ UNCHANGED <<code, lines, variables, shouldExit, exitCode, shouldBreak,
                   shouldContinue, stack, result, execCount, condCount,
                   passCount, errCount, lastExec, files, loadedFiles, reads,
                   plugins, functions, instances>>

NextResolveTwice == ExecuteFile \/ ProcessRequires \/ ResolveAgain

SpecResolveTwice == InitRequire /\ [][NextResolveTwice]_vars

\* the second resolution has returned
ResolvedTwice == phase = "resolved" /\ call.fn = "processRequires"

(* C24, as claimed: resolving the same source twice on one instance gives  *)
(* the same resolved text both times; the second resolution inlines the    *)
(* required files again.                                                    *)
C24_Original ==
    ResolvedTwice => resolve.ret = call.first
----------------------------------------------------------------------------
(* validateCode (interpreter.js 513-576) called on its own *)

MaxLines == 4

ValidateAlphabet == {If("true"), ElseIf("true"), Else, EndIf, While("false"),
                     EndWhile, For("i", 0, 1), EndFor, Log, Comment}
ValidateSources == SeqsUpTo(ValidateAlphabet, MaxLines)

Validate ==
    /\ call = NoCall
    /\ \E src \in ValidateSources :
          call' = [fn |-> "validateCode", src |-> src,
                   errors |-> validateCode(src)]
    /\ UNCHANGED <<runVars, reqVars, plugVars, instances>>

ValidateReturns ==
    /\ call.fn = "validateCode"
    /\ call' = NoCall
    /\ UNCHANGED <<runVars, reqVars, plugVars, instances>>

NextValidate == Validate \/ ValidateReturns

SpecValidate == Init /\ [][NextValidate]_vars

\* the lines of the openers that are open after the first i lines of src,
\* innermost last: an opener is pushed, a terminator takes off the top
\* when the top is an opener of its kind
RECURSIVE OpenBlocks(_, _)
OpenBlocks(src, i) ==
    IF i = 0 THEN <<>>
    ELSE LET before == OpenBlocks(src, i - 1)
             l == src[i]
         IN  IF l.k \in OpenerKinds THEN Append(before, i)
             ELSE IF /\ l.k \in CloserKinds
                     /\ before # <<>>
                     /\ Closes(src[before[Len(before)]], l)
                  THEN SubSeq(before, 1, Len(before) - 1)
             ELSE before

\* the kind of the innermost open block before line i, "" for none
TopKind(src, i) ==
    LET before == OpenBlocks(src, i - 1)
    IN  IF before = <<>> THEN "" ELSE src[before[Len(before)]].k

\* the terminators that find the stack empty or another kind of opener
BadTerminators(src) ==
    {i \in 1..Len(src) :
        src[i].k \in CloserKinds /\ TopKind(src, i) # CloserType(src[i])}

\* the elseif and else lines whose innermost open block is not an if
BadElses(src) ==
    {i \in 1..Len(src) : src[i].k \in {"elseif", "else"} /\ TopKind(src, i) # "if"}

\* the lines of the errors of the kinds es in a list of errors
ErrorLines(errors, es) ==
    {errors[j].line : j \in {k \in 1..Len(errors) : errors[k].e \in es}}

\* openers and terminators pair up by depth and kind, and every elseif
\* and else stands directly in an if block
WellNested(src) ==
    /\ Balanced(src)
    /\ \A i \in 1..Len(src) :
          src[i].k \in {"elseif", "else"} =>
              Innermost(src, i) # 0 /\ src[Innermost(src, i)].k = "if"

(* C25: validateCode returns one error for every terminator that finds    *)
(* the stack empty or topped by an opener of another kind, one for every   *)
(* elseif or else whose innermost open block is not an if, one for every   *)
(* opener still open at the end, and no other; the list is empty exactly   *)
(* when the block directives are well nested.                              *)
C25_ValidateCode ==
    call.fn = "validateCode" =>
        LET src == call.src
            errors == call.errors
            open == OpenBlocks(src, Len(src))
        IN  /\ ErrorLines(errors, {"Unmatched", "Mismatched"}) = BadTerminators(src)
            /\ ErrorLines(errors, {"Orphan"}) = BadElses(src)
            /\ ErrorLines(errors, {"Unclosed"}) = {open[j] : j \in 1..Len(open)}
            /\ Len(errors) = Cardinality(BadTerminators(src))
                               + Cardinality(BadElses(src)) + Len(open)
            /\ (errors = <<>>) <=> WellNested(src)

\* a terminator on an empty stack, an else in a while block and two
\* openers left open: four errors
C25_Witness ==
    /\ call.fn = "validateCode"
    /\ call.src = <<EndIf, While("false"), Else, If("true")>>
    /\ Len(call.errors) = 4
----------------------------------------------------------------------------
(* The names that handleVar (utils.js 163-187) and the head of processFor  *)
(* (interpreter.js 772-804) put into the store.  The values hold no "§",   *)
(* no "$" and no arithmetic operator.                                      *)

\* name texts as written in the directive, and value texts
NameTexts == {<<>>, <<"x">>, <<"_">>, <<"1">>, <<" ">>, <<"x", "1">>,
              <<"1", "x">>, <<" ", "x">>, <<"_", "1">>}
ValueTexts == {<<"5">>}

\* handleVar on the argument text args: the store after the call
handleVarArgs(args, es) ==
    LET parts == splitArgs(args)
    IN  IF Len(parts) >= 2
        THEN LET name  == Trim(parts[1])
                 value == cleanQuotes(
                              replaceVariables(Trim(Join(Tail(parts))), es))
             IN  MapSetEntry(es, name, value)
        ELSE es

\* processFor on the line "§for[name;0;1]" with an empty body: the regular
\* expression wants a name text of one character or more without ";",
\* the first pass sets the trimmed name to "0"
processForHead(nameText, es) ==
    IF nameText = <<>> \/ \E i \in 1..Len(nameText) : nameText[i] = ";"
    THEN es
    ELSE MapSetEntry(es, Trim(nameText), String(0))

\* the statement §var[name;value]
VarStatement ==
    /\ call.fn \in {"none", "assign"}
    /\ \E n \in NameTexts, v \in ValueTexts :
          LET es  == IF call.fn = "none" THEN <<>> ELSE call.store
              new == handleVarArgs(n \o <<";">> \o v, es)
          IN  /\ Len(new) <= MaxVars
              /\ call' = [fn |-> "assign", store |-> new]
    /\ UNCHANGED <<runVars, reqVars, plugVars, instances>>

\* the loop §for[name;0;1] ... §endfor
ForStatement ==
    /\ call.fn \in {"none", "assign"}
    /\ \E n \in NameTexts :
          LET es  == IF call.fn = "none" THEN <<>> ELSE call.store
              new == processForHead(n, es)
          IN  /\ Len(new) <= MaxVars
              /\ call' = [fn |-> "assign", store |-> new]
    /\ UNCHANGED <<runVars, reqVars, plugVars, instances>>

NextNames == VarStatement \/ ForStatement

SpecNames == Init /\ [][NextNames]_vars

\* a name that is not empty and starts with a letter or an underscore
ValidName(n) == n # <<>> /\ Head(n) \in {"x", "_"}

(* C26, as claimed: in every reachable state every name of the variable    *)
(* store is non-empty and starts with a letter or an underscore, whatever  *)
(* var assignments and for loops ran.                                      *)
C26_Original ==
    call.fn = "assign" =>
        \A i \in 1..Len(call.store) : ValidName(call.store[i].k)
----------------------------------------------------------------------------
(* evaluateNestedFunctions (utils.js 438-468) on texts of calls.  The      *)
(* directives are named by one letter:                                     *)
(*   r  a handler whose returned text holds a call of r itself (readFile   *)
(*      of a file that holds the same readFile call),                      *)
(*   g  a handler whose returned text holds a call of another directive,   *)
(*   e  a handler that returns its cleaned argument (trim),                *)
(*   l  a handler that returns undefined (log, var),                       *)
(*   b, c  break and continue: a flag is set, the empty text returned,     *)
(* and any other name has no entry in this.functions.                      *)

MaxIterations == 10
MaxTokens == 3

WordChars == {"r", "g", "e", "l", "b", "c", "u", "a"}

RECURSIVE RunOf(_, _, _)
\* the length of the run of characters of S in t from index i on
RunOf(t, i, S) ==
    IF i <= Len(t) /\ t[i] \in S THEN 1 + RunOf(t, i + 1, S) ELSE 0

NoMatch == [start |-> 0, name |-> <<>>, args |-> <<>>, stop |-> 0]

\* /§(\w+)\[([^\[\]]*)\]/ tried at index i
MatchAt(t, i) ==
    IF t[i] # "§" THEN NoMatch
    ELSE LET n    == RunOf(t, i + 1, WordChars)
             open == i + 1 + n
             m    == RunOf(t, open + 1, (WordChars \cup {"§"}))
             shut == open + 1 + m
         IN  IF n >= 1 /\ open <= Len(t) /\ t[open] = "["
                /\ shut <= Len(t) /\ t[shut] = "]"
             THEN [start |-> i, name |-> SubSeq(t, i + 1, open - 1),
                   args |-> SubSeq(t, open + 1, shut - 1), stop |-> shut]
             ELSE NoMatch

\* result.match(...): the leftmost match
FunctionMatch(t) ==
    LET hits == {i \in 1..Len(t) : MatchAt(t, i).start # 0}
    IN  IF hits = {} THEN NoMatch
        ELSE MatchAt(t, CHOOSE i \in hits : \A j \in hits : i <= j)

RegisteredNames == {<<"r">>, <<"g">>, <<"e">>, <<"l">>, <<"b">>, <<"c">>}

\* this.functions[funcName](funcArgs): the returned text, or undefined
HandlerResult(name, funcArgs) ==
    CASE name = <<"r">> -> [defined |-> TRUE, text |-> <<"§", "r", "[", "a", "]">>]
      [] name = <<"g">> -> [defined |-> TRUE, text |-> <<"§", "e", "[", "a", "]">>]
      [] name = <<"e">> -> [defined |-> TRUE, text |-> funcArgs]
      [] name \in {<<"b">>, <<"c">>} -> [defined |-> TRUE, text |-> <<>>]
      [] OTHER          -> [defined |-> FALSE, text |-> <<>>]

\* a test of the iteration count against twice the limit
WithinBudgetTwice(iterations) == iterations < 2 * MaxIterations

\* iterations < maxIterations
WithinBudget(iterations) == iterations < MaxIterations

\* one turn of the do-while loop: the fields after it
ExpandTurn(c) ==
    LET m   == FunctionMatch(c.result)
        run == m.start # 0 /\ WithinBudget(c.iterations)
                 /\ m.name \in RegisteredNames
        r   == HandlerResult(m.name, cleanQuotes(m.args))
        changed == run /\ r.defined
        iterations == IF changed THEN c.iterations + 1 ELSE c.iterations
    IN  [c EXCEPT
           !.result = IF changed
                      THEN SubSeq(c.result, 1, m.start - 1) \o r.text
                             \o SubSeq(c.result, m.stop + 1, Len(c.result))
                      ELSE @,
           !.iterations = iterations,
           !.invocations = IF run THEN @ + 1 ELSE @,
           !.turns = @ + 1,
           !.events = IF run THEN Append(@, m.name[1]) ELSE @,
           !.pc = IF changed /\ WithinBudget(iterations)
                  THEN "loop" ELSE "returned"]

ExpandPieces == {<<"§", "r", "[">>, <<"§", "g", "[">>, <<"§", "e", "[">>,
                 <<"§", "l", "[">>, <<"§", "u", "[">>, <<"a">>, <<"]">>}
ExpandTexts == {Concat(ps) : ps \in SeqsUpTo(ExpandPieces, MaxTokens)}

InitExpand ==
    /\ InitRun
    /\ \E t \in ExpandTexts :
          call = [fn |-> "evaluateNestedFunctions", text |-> t, result |-> t,
                  iterations |-> 0, invocations |-> 0, turns |-> 0,
                  events |-> <<>>, pc |-> "loop"]
    /\ files = <<>>
    /\ loadedFiles = {}
    /\ reads = <<>>
    /\ resolve = NoResolve
    /\ plugins = <<>>
    /\ functions = <<>>
    /\ instances = <<>>

EvaluateNestedFunctions ==
    /\ call.fn = "evaluateNestedFunctions"
    /\ call.pc = "loop"
    /\ call' = ExpandTurn(call)
    /\ UNCHANGED <<runVars, reqVars, plugVars, instances>>

NextExpand == EvaluateNestedFunctions

SpecExpand == InitExpand /\ [][NextExpand]_vars /\ WF_vars(NextExpand)

(* C27: one call of nested-call expansion returns within 10 turns of its   *)
(* loop, after at most 10 rewrites and at most 10 handler invocations,     *)
(* also when the text a handler returns holds a call of a registered       *)
(* directive or of the same directive: the loop goes on only after a turn  *)
(* that rewrote the text, and only while fewer than 10 rewrites were made. *)
C27_ExpansionBounded ==
    call.fn = "evaluateNestedFunctions" =>
        /\ call.turns <= 10
        /\ call.iterations <= 10
        /\ call.invocations <= 10
        /\ call.pc = "loop" =>
              call.iterations = call.turns /\ call.iterations < 10

\* the call of r gave a call of r ten times over, and expansion returned
C27_Witness ==
    /\ call.text = <<"§", "r", "[", "a", "]">>
    /\ call.pc = "returned"
    /\ call.turns = 10
    /\ call.iterations = 10
    /\ call.invocations = 10
    /\ call.result = <<"§", "r", "[", "a", "]">>
----------------------------------------------------------------------------
(* One statement whose argument holds nested calls: executeLine            *)
(* (interpreter.js 857-877) hands the argument text to the handler;        *)
(* handleLog and handleVar call evaluateNestedFunctions on it before they  *)
(* act, handleExit does not (utils.js 132-187).  The events of a statement *)
(* are the handlers that ran, in order, the statement's own effect last.   *)

\* evaluateNestedFunctions(text) run to its return
RECURSIVE RunExpand(_)
RunExpand(c) == IF c.pc = "returned" THEN c ELSE RunExpand(ExpandTurn(c))

Expansion(text) ==
    RunExpand([fn |-> "evaluateNestedFunctions", text |-> text,
               result |-> text, iterations |-> 0, invocations |-> 0,
               turns |-> 0, events |-> <<>>, pc |-> "loop"])

\* §log[args]: the nested handlers, then console.log
handleLogEvents(args) == Append(Expansion(args).events, "log")

\* §var[x;args]: the nested handlers of the value, then variables.set
handleVarEvents(args) ==
    LET parts == splitArgs(<<"x", ";">> \o args)
    IN  IF Len(parts) >= 2
        THEN Append(Expansion(Trim(Join(Tail(parts)))).events, "var")
        ELSE <<>>

\* §exit[args]: the flag and the code are set from the unexpanded text
handleExitEvents(args) == <<"exit">>

NestedPieces == {<<"§", "b", "[">>, <<"§", "c", "[">>, <<"§", "e", "[">>,
                 <<"§", "l", "[">>, <<"a">>, <<"]">>}
NestedTexts ==
    {Concat(ps) : ps \in SeqsUpTo(NestedPieces, MaxTokens + 1)} \ {<<>>}

Statement ==
    /\ call = NoCall
    /\ \E kind \in {"log", "var", "exit"}, args \in NestedTexts :
          call' = [fn |-> "executeLine", kind |-> kind, args |-> args,
                   events |-> CASE kind = "log" -> handleLogEvents(args)
                                [] kind = "var" -> handleVarEvents(args)
                                [] kind = "exit" -> handleExitEvents(args)]
    /\ UNCHANGED <<runVars, reqVars, plugVars, instances>>

StatementReturns ==
    /\ call.fn = "executeLine"
    /\ call' = NoCall
    /\ UNCHANGED <<runVars, reqVars, plugVars, instances>>

NextStatement == Statement \/ StatementReturns

SpecStatement == Init /\ [][NextStatement]_vars

\* the index of the bracket that closes the one opened at index i, 0 for none
RECURSIVE CloseFrom(_, _, _)
CloseFrom(t, j, depth) ==
    IF j > Len(t) THEN 0
    ELSE IF t[j] = "[" THEN CloseFrom(t, j + 1, depth + 1)
    ELSE IF t[j] = "]"
         THEN IF depth = 1 THEN j ELSE CloseFrom(t, j + 1, depth - 1)
    ELSE CloseFrom(t, j + 1, depth)

\* the calls of t: where the closing bracket of each stands, and its name
NestedCalls(t) ==
    {c \in [close : 1..Len(t), name : {"b", "c", "e", "l"}] :
        \E i \in 1..(Len(t) - 2) :
            /\ t[i] = "§" /\ t[i + 1] = c.name /\ t[i + 2] = "["
            /\ CloseFrom(t, i + 3, 1) = c.close}

\* the names of a set of calls in the order of their closing brackets:
\* inner calls before the call that holds them, left before right
RECURSIVE InnermostFirst(_)
InnermostFirst(cs) ==
    IF cs = {} THEN <<>>
    ELSE LET c == CHOOSE c \in cs : \A d \in cs : c.close <= d.close
         IN  <<c.name>> \o InnermostFirst(cs \ {c})

(* C28, as claimed: for log, var and exit alike, the nested calls of the   *)
(* statement's argument run innermost first, and all of them before the    *)
(* statement's own effect.                                                  *)
C28_Original ==
    call.fn = "executeLine" =>
        call.events = Append(InnermostFirst(NestedCalls(call.args)), call.kind)

----------------------------------------------------------------------------
(* The bounds of a for statement (interpreter.js 772-780, 798-805) *)

\* §for[v;s;$name]: the end bound is written as a variable reference
ForTo(v, s, name) == Line("for", "", v, String(s), <<"$", name>>)

\* the bodies that read or change the variable the bound refers to
ForBodies == {Log, Var("n", 0), Inc("n")}

\* §var[n;k] followed by a for statement from a to a literal or to $n
ForBoundPrograms ==
    {<<Var("n", k), hd, b, EndFor>> :
        k \in 0..2,
        hd \in {For("i", a, e) : a \in 0..1, e \in 0..2}
                 \cup {ForTo("i", a, "n") : a \in 0..1},
        b \in ForBodies}

\* execute on a program of ForBoundPrograms; n is the value the variable of
\* the bound holds when the for statement is entered
ExecuteFor ==
    /\ phase = "idle"
    /\ call = NoCall
    /\ \E src \in ForBoundPrograms :
         /\ call' = [fn |-> "processFor", start |-> ParseFloat(src[2].a).n,
                     end |-> src[2].b, n |-> ParseFloat(src[1].a).n]
         /\ Execute(src)
    /\ UNCHANGED <<reqVars, plugVars, instances>>

NextForBound ==
    \/ ExecuteFor
    \/ ProcessLine
    \/ ProcessFor
    \/ Finish

SpecForBound == Init /\ [][NextForBound]_vars

\* the end bound as the specification resolves it: a variable reference is
\* replaced by the value the variable holds at loop entry
ResolvedEnd == IF Head(call.end) = "$" THEN call.n ELSE ParseFloat(call.end).n

\* the passes of a loop from a up to, but not including, e
PassesBetween(a, e) == IF e > a THEN e - a ELSE 0

\* C29: the bounds of a for loop are resolved once at loop entry with
\* variable references replaced by their values: a loop from a to $n makes
\* as many passes as lie between a and the value n had at entry, whatever
\* the body does to n
C29_Original ==
    (phase = "done" /\ call.fn = "processFor")
        => passCount[2] = PassesBetween(call.start, ResolvedEnd)


----------------------------------------------------------------------------
(* The tokenizer (src/lib/tokenizer.js) *)

MaxCode == 3

\* a token without its line and column
Token(type, value) == [type |-> type, value |-> value]

LetterChars ==
    {"a", "b", "c", "d", "e", "f", "g", "h", "i", "j", "k", "l", "m",
     "n", "o", "p", "q", "r", "s", "t", "u", "v", "w", "x", "y", "z",
     "A", "B", "C", "D", "E", "F", "G", "H", "I", "J", "K", "L", "M",
     "N", "O", "P", "Q", "R", "S", "T", "U", "V", "W", "X", "Y", "Z"}

DigitChars == {Digits[d] : d \in 1..10}

\* /[a-zA-Z0-9]/.test(char)
isAlphaNumeric(ch) == ch \in LetterChars \cup DigitChars

\* the characters a function or variable name is read from
NameChars == LetterChars \cup DigitChars \cup {"_"}

\* the characters an identifier is read from
IdentifierChars == NameChars \cup {"-", ".", "/"}

\* tokenizeFunction at the sigil at pos: the position after the name and
\* the tokens pushed
tokenizeFunction(src, pos) ==
    LET n == RunOf(src, pos + 1, NameChars)
    IN  [pos |-> pos + 1 + n,
         tokens |-> IF n > 0
                    THEN <<Token("FUNCTION", SubSeq(src, pos + 1, pos + n))>>
                    ELSE <<>>]

\* tokenizeVariable at the $ at pos
tokenizeVariable(src, pos) ==
    LET n == RunOf(src, pos + 1, NameChars)
    IN  [pos |-> pos + 1 + n,
         tokens |-> IF n > 0
                    THEN <<Token("VARIABLE", SubSeq(src, pos + 1, pos + n))>>
                    ELSE <<Token("OTHER", <<"$">>)>>]

RECURSIVE StringBody(_, _, _, _)
\* the loop of tokenizeString: the position it stops at and the value read
StringBody(src, pos, quote, value) ==
    IF pos <= Len(src) /\ src[pos] # quote
    THEN IF src[pos] = "\\"
         THEN IF pos + 1 <= Len(src)
              THEN StringBody(src, pos + 2, quote, Append(value, src[pos + 1]))
              ELSE StringBody(src, pos + 1, quote, value)
         ELSE StringBody(src, pos + 1, quote, Append(value, src[pos]))
    ELSE [pos |-> pos, value |-> value]

\* tokenizeString at the opening quote at pos
tokenizeString(src, pos) ==
    LET b == StringBody(src, pos + 1, src[pos], <<>>)
    IN  [pos |-> IF b.pos <= Len(src) THEN b.pos + 1 ELSE b.pos,
         tokens |-> <<Token("STRING", b.value)>>]

\* tokenizeIdentifier at pos
tokenizeIdentifier(src, pos) ==
    LET n == RunOf(src, pos, IdentifierChars)
        value == SubSeq(src, pos, pos + n - 1)
        type == IF value \in {<<"t", "r", "u", "e">>,
                              <<"f", "a", "l", "s", "e">>}
                THEN "BOOLEAN"
                ELSE IF value \in {<<"i", "f">>, <<"e", "n", "d", "i", "f">>,
                                   <<"w", "h", "i", "l", "e">>,
                                   <<"e", "n", "d", "w", "h", "i", "l", "e">>,
                                   <<"f", "u", "n", "c">>}
                THEN "KEYWORD"
                ELSE "IDENTIFIER"
    IN  [pos |-> pos + n, tokens |-> <<Token(type, value)>>]

\* tokenizeNumber at pos
tokenizeNumber(src, pos) ==
    LET n == RunOf(src, pos, DigitChars \cup {"."})
    IN  [pos |-> pos + n,
         tokens |-> <<Token("NUMBER", SubSeq(src, pos, pos + n - 1))>>]

RECURSIVE skipComment(_, _)
\* skipComment at pos: the position of the next newline or the end
skipComment(src, pos) ==
    IF pos <= Len(src) /\ src[pos] # "\n" THEN skipComment(src, pos + 1)
    ELSE pos

RECURSIVE TokenizeFrom(_, _, _)
\* the scanning loop of tokenize, its tests in the order of the source
TokenizeFrom(src, pos, tokens) ==
    IF pos > Len(src) THEN Append(tokens, Token("EOF", <<>>))
    ELSE LET ch == src[pos]
             sub(r) == TokenizeFrom(src, r.pos, tokens \o r.tokens)
         IN  IF ch \in {" ", "\t"} THEN TokenizeFrom(src, pos + 1, tokens)
             ELSE IF ch = "\n" THEN TokenizeFrom(src, pos + 1, tokens)
             ELSE IF ch = "#"
             THEN TokenizeFrom(src, skipComment(src, pos), tokens)
             ELSE IF ch = "§" THEN sub(tokenizeFunction(src, pos))
             ELSE IF ch \in {"\"", "'"} THEN sub(tokenizeString(src, pos))
             ELSE IF ch = "["
             THEN TokenizeFrom(src, pos + 1,
                               Append(tokens, Token("LBRACKET", <<"[">>)))
             ELSE IF ch = "]"
             THEN TokenizeFrom(src, pos + 1,
                               Append(tokens, Token("RBRACKET", <<"]">>)))
             ELSE IF ch = ";"
             THEN TokenizeFrom(src, pos + 1,
                               Append(tokens, Token("SEMICOLON", <<";">>)))
             ELSE IF ch = "$" THEN sub(tokenizeVariable(src, pos))
             ELSE IF isAlphaNumeric(ch) \/ ch \in {"_", "-", ".", "/"}
             THEN sub(tokenizeIdentifier(src, pos))
             ELSE IF IsDigit(ch) THEN sub(tokenizeNumber(src, pos))
             ELSE IF ch \in {"{", "}", "(", ")", ","}
             THEN TokenizeFrom(src, pos + 1,
                               Append(tokens, Token("OTHER", <<ch>>)))
             ELSE TokenizeFrom(src, pos + 1, tokens)

tokenize(src) == TokenizeFrom(src, 1, <<>>)

CodeAlphabet == {"1", "a", ".", " ", ";", "#", "\n", "\"", "$"}
CodeTexts == SeqsUpTo(CodeAlphabet, MaxCode)

Tokenize ==
    /\ call = NoCall
    /\ \E src \in CodeTexts :
          call' = [fn |-> "tokenize", code |-> src, ret |-> tokenize(src)]
    /\ UNCHANGED <<runVars, reqVars, plugVars, instances>>

TokenizeReturns ==
    /\ call.fn = "tokenize"
    /\ call' = NoCall
    /\ UNCHANGED <<runVars, reqVars, plugVars, instances>>

NextTokenize == Tokenize \/ TokenizeReturns

SpecTokenize == Init /\ [][NextTokenize]_vars

RECURSIVE ModeBefore(_, _)
\* where the character at p stands: in plain code, in a comment, or in a
\* string (named by its quote)
ModeBefore(src, p) ==
    IF p = 1 THEN "code"
    ELSE LET m == ModeBefore(src, p - 1)
             ch == src[p - 1]
         IN  IF m = "code"
             THEN IF ch \in {"\"", "'"} THEN ch
                  ELSE IF ch = "#" THEN "comment" ELSE "code"
             ELSE IF m = "comment"
             THEN IF ch = "\n" THEN "code" ELSE "comment"
             ELSE IF ch = m THEN "code" ELSE m

\* the digits at p..q stand alone: in plain code, with no identifier
\* character or sigil next to them
StandsAlone(src, p, q) ==
    /\ \A i \in p..q : IsDigit(src[i])
    /\ ModeBefore(src, p) = "code"
    /\ p = 1 \/ src[p - 1] \notin IdentifierChars \cup {"$", "§"}
    /\ q = Len(src) \/ src[q + 1] \notin IdentifierChars

\* the stream holds exactly one EOF token, at its end
OneEOF(tokens) ==
    /\ tokens # <<>>
    /\ \A k \in 1..Len(tokens) : tokens[k].type = "EOF" <=> k = Len(tokens)

\* C30: the tokenizer emits a NUMBER token for every run of digits that
\* stands alone in the source, and the token stream of every input ends with
\* exactly one EOF token
C30_Original ==
    call.fn = "tokenize" =>
        /\ \A p \in 1..Len(call.code) : \A q \in p..Len(call.code) :
              StandsAlone(call.code, p, q) =>
                 \E k \in 1..Len(call.ret) :
                    call.ret[k] = Token("NUMBER", SubSeq(call.code, p, q))
        /\ OneEOF(call.ret)


----------------------------------------------------------------------------
(* Conditions whose evaluation fails (utils.js 470-502) *)

\* §if[$v < n] and conditions that throw: "bad" stands for a text that is no
\* expression, "$y < 2" names a variable that no program below defines
IfLt(v, n) == Line("if", "lt", v, String(n), <<>>)
FailingIfs == {If("bad"), IfLt("y", 2)}
FailingWhiles == {While("bad"), WhileLt("y", 2)}

FailingChains == {<<>>, <<Else, Log>>, <<ElseIf("true"), Log>>,
                  <<ElseIf("true"), Log, Else, Log>>,
                  <<ElseIf("bad"), Log, Else, Log>>,
                  <<ElseIf("false"), Log, ElseIf("true"), Log>>}
FailingBlocks ==
    {<<h>> \o b \o ch \o <<EndIf>> :
        h \in FailingIfs,
        b \in {<<Log>>, <<Var("x", 5)>>, <<If("true"), Log, Else, Log, EndIf>>},
        ch \in FailingChains}
    \cup {<<h>> \o b \o <<EndWhile>> :
             h \in FailingWhiles, b \in {<<Log>>, <<Exit(1)>>, <<Break>>}}

\* a block with a failing condition at top level or in a for body, and a
\* conditional with a failing condition in a while body
FailingPrograms ==
    {<<Log>> \o b \o <<Log>> : b \in FailingBlocks}
    \cup {<<Log, For("i", 0, 2)>> \o b \o <<EndFor, Log>> : b \in FailingBlocks}
    \cup {<<Var("x", 0), WhileLt("x", 2), Inc("x")>> \o b \o <<EndWhile, Log>> :
             b \in {c \in FailingBlocks : IsIf(c[1])}}

ExecuteFailing ==
    /\ phase = "idle"
    /\ UNCHANGED unitVars
    /\ \E src \in FailingPrograms : Execute(src)

NextFailing ==
    \/ ExecuteFailing
    \/ ProcessLine
    \/ ProcessCondition
    \/ ProcessWhile
    \/ ProcessFor
    \/ Finish

SpecFailing == Init /\ [][NextFailing]_vars

\* the evaluation of the condition of line l fails
Fails(l) == l.c = "bad" \/ (l.c = "lt" /\ l.v = "y")

\* the head of the branch that a conditional whose if condition is false
\* selects: its first elseif with a true condition, else its else, else 0
SelectedHead(ls, s) ==
    LET T == {h \in Heads(ls, s) \ {s} : ls[h].k = "else" \/ ls[h].c = "true"}
    IN  IF T = {} THEN 0 ELSE CHOOSE h \in T : \A g \in T : h <= g

\* the times the block opened at s is reached in a program of
\* FailingPrograms: once at top level, twice in the body of its loop
TimesReached(ls, s) == IF Innermost(ls, s) = 0 THEN 1 ELSE 2

----------------------------------------------------------------------------
(* The frame of §var (utils.js 163-187) *)

\* the else branch of handleVar: the syntax error is reported
handleVarReports(args) == Len(splitArgs(args)) < 2

\* argument texts of §var: a name, and a value that holds no call and no
\* operator (a number, a reference, a quoted text, a text with a semicolon),
\* or no value at all
AssignNames == {<<"x">>, <<"y">>, <<" ", "x">>}
AssignValues == {<<"5">>, <<"7">>, <<"$", "x">>, <<"'", "a", "'">>,
                 <<"5", ";", "7">>}
AssignForms == {"name;value", "name", "name;", "none"}
AssignArgs(form, n, v) ==
    CASE form = "name;value" -> n \o <<";">> \o v
      [] form = "name"       -> n
      [] form = "name;"      -> n \o <<";">>
      [] form = "none"       -> <<>>

\* a §var statement on the store the statement before it left
HandleVar ==
    /\ call.fn \in {"none", "handleVar"}
    /\ \E form \in AssignForms, n \in AssignNames, v \in AssignValues :
          LET es   == IF call.fn = "none" THEN <<>> ELSE call.store
              args == AssignArgs(form, n, v)
          IN  call' = [fn |-> "handleVar", form |-> form, name |-> n,
                       before |-> es, store |-> handleVarArgs(args, es),
                       error |-> handleVarReports(args)]
    /\ UNCHANGED <<runVars, reqVars, plugVars, instances>>

NextVar == HandleVar

SpecVar == Init /\ [][NextVar]_vars

\* the names bound in a store and the value a store binds to a name
Bound(es) == {es[i].k : i \in DOMAIN es}
ValueOf(es, k) == es[CHOOSE i \in DOMAIN es : es[i].k = k].v

\* C32: var[name;value] changes only the binding of name, a later
\* assignment to the same name overwriting the earlier one, and leaves
\* every other binding unchanged; a var call with fewer than two arguments
\* reports an error and leaves the whole variable store unchanged
C32_VarFrame ==
    call.fn = "handleVar" =>
        IF call.form = "name;value"
        THEN /\ ~call.error
             /\ Bound(call.store) = Bound(call.before) \cup {Trim(call.name)}
             /\ \A i, j \in DOMAIN call.store :
                   call.store[i].k = call.store[j].k => i = j
             /\ \A k \in Bound(call.before) \ {Trim(call.name)} :
                   ValueOf(call.store, k) = ValueOf(call.before, k)
        ELSE call.error /\ call.store = call.before

\* x is assigned again while y is bound: x holds the later value, y its own
C32_Witness ==
    /\ call.fn = "handleVar"
    /\ call.form = "name;value"
    /\ call.name = <<"x">>
    /\ Bound(call.before) = {<<"x">>, <<"y">>}
    /\ ValueOf(call.before, <<"x">>) = <<"5">>
    /\ ValueOf(call.before, <<"y">>) = <<"a">>
    /\ ValueOf(call.store, <<"x">>) = <<"7">>
    /\ ValueOf(call.store, <<"y">>) = <<"a">>


----------------------------------------------------------------------------
(* Termination of execute (interpreter.js 427-432, 593-850) *)

\* conditionals, loops, loops in blocks and loops that only their ceiling
\* stops
TerminatePrograms ==
    CondPrograms \cup LoopPrograms \cup NestPrograms \cup RunawayPrograms

ExecuteProgram ==
    /\ phase = "idle"
    /\ UNCHANGED unitVars
    /\ \E src \in TerminatePrograms : Execute(src)

NextTerminate ==
    \/ ExecuteProgram
    \/ ProcessLine
    \/ ProcessCondition
    \/ ProcessWhile
    \/ ProcessFor
    \/ Finish

\* every step of the engine is taken in the end: the interpreter runs on
\* one thread and every handler returns
SpecTerminate ==
    Init /\ [][NextTerminate]_vars /\ WF_vars(NextTerminate)

\* a flat statement ran: the activation that ran it moves one line on
StatementAdvances ==
    (phase = "running" /\ phase' = "running" /\ execCount' # execCount) =>
        /\ Len(stack') = Len(stack)
        /\ stack'[Len(stack)].idx = stack[Len(stack)].idx + 1

\* a block processor returned: its caller goes on after the line of the
\* opener it called the processor at
BlockAdvances ==
    (phase = "running" /\ phase' = "running"
       /\ Len(stack') = Len(stack) - 1) =>
        stack'[Len(stack')].idx > stack[Len(stack')].idx

\* no loop makes more passes than its ceiling
WithinCeilings ==
    \A j \in 1..Len(stack) :
        /\ stack[j].fn = "while" => stack[j].iter <= WhileMax
        /\ stack[j].fn = "for" => stack[j].iter <= ForMax

\* C33: for every validated program whose handlers return execute
\* terminates: the index of the next line strictly advances after every
\* flat statement and every block, no loop passes its iteration ceiling,
\* and the run ends
C33_ExecuteTerminates ==
    /\ [][StatementAdvances /\ BlockAdvances]_vars
    /\ [](WithinCeilings)
    /\ <>(phase = "done")

\* a while loop that only its ceiling stopped, and the run ended
C33_Witness ==
    /\ phase = "done"
    /\ result = "true"
    /\ \E s \in 1..Len(lines) :
          IsWhile(lines[s]) /\ lines[s].c = "true" /\ passCount[s] = WhileMax


----------------------------------------------------------------------------
(* Loops placed in conditionals and in while bodies *)

\* the loop opened at line s stands directly in the body of a taken if
\* branch, or is a for loop standing directly in a while body, and every
\* run reaches the block around it
LoopInBlock(ls, s) ==
    LET o == Innermost(ls, s)
    IN  /\ ls[s].k \in {"while", "for"}
        /\ o # 0
        /\ Reached(ls, o)
        /\ \/ IsIf(ls[o]) /\ ls[o].c = "true" /\ BranchOf(ls, o, s) = o
           \/ IsWhile(ls[o]) /\ IsFor(ls[s])

\* C34: a while or for loop placed in the body of a taken branch, and a for
\* loop placed in a while body that makes a pass, runs as a loop: a for loop
\* over a range that is not empty makes a pass, the last statement of the
\* program runs and execute returns success
C34_Original ==
    (phase = "done" /\ ~HasKind(lines, {"break", "continue", "exit"})) =>
        \A s \in 1..Len(lines) :
            (/\ LoopInBlock(lines, s)
             /\ IsWhile(lines[Innermost(lines, s)])
                   => passCount[Innermost(lines, s)] > 0) =>
                /\ result = "true"
                /\ execCount[Len(lines)] = 1
                /\ (IsFor(lines[s]) /\ Range(lines[s]) > 0) => passCount[s] > 0


----------------------------------------------------------------------------
(* break and continue outside every loop *)

\* C35: a break or continue executed while no loop is active changes
\* nothing later: both flags are false whenever the top-level run loop
\* starts a statement, and a later top-level for loop whose body holds no
\* break, continue or exit runs every statement of its body once for each
\* value of its range
C35_Original ==
    /\ (phase = "running" /\ Top.fn = "execute")
          => ~shouldBreak /\ ~shouldContinue
    /\ phase = "done" =>
          \A s \in 1..Len(lines) :
              (/\ IsFor(lines[s])
               /\ Innermost(lines, s) = 0
               /\ Reached(lines, s)
               /\ IntBounds(lines[s])
               /\ Range(lines[s]) <= ForMax
               /\ BodyFree(lines, s, {"break", "continue", "exit"}
                                        \cup OpenerKinds)) =>
                  \A p \in (s + 1)..(Match(lines, s) - 1) :
                      IsStatement(lines[p])
                          => execCount[p] = Max(0, Range(lines[s]))


----------------------------------------------------------------------------
(* Loops that end at their ceiling (interpreter.js 722-769, 798-849) *)

\* a while loop that counts x from 0 up to n and a for loop over 0..e-1,
\* for n and e just below, at and just above the ceiling of the loop
CeilingPrograms ==
    {<<Var("x", 0), WhileLt("x", WhileMax + d), Inc("x"), EndWhile, Log>> :
        d \in {-1, 0, 1}}
    \cup {<<For("i", 0, ForMax + d), Log, EndFor, Log>> : d \in {-1, 0, 1}}

ExecuteCeiling ==
    /\ phase = "idle"
    /\ UNCHANGED unitVars
    /\ \E src \in CeilingPrograms : Execute(src)

NextCeiling ==
    \/ ExecuteCeiling
    \/ ProcessLine
    \/ ProcessWhile
    \/ ProcessFor
    \/ Finish

SpecCeiling == Init /\ [][NextCeiling]_vars

\* the passes the loop of line l asks for: the limit of the counting while
\* loop, the range of the for loop
PassesAsked(l) == IF IsWhile(l) THEN ParseFloat(l.a).n ELSE Max(0, Range(l))

Ceiling(l) == IF IsWhile(l) THEN WhileMax ELSE ForMax

\* C36: the runaway-loop error is reported only for a loop that was
\* forcibly stopped at its ceiling: a while loop whose condition becomes
\* false after exactly 1000 passes and a for loop whose range holds exactly
\* 10,000 values complete without an error report
C36_Original ==
    phase = "done" =>
        \A s \in 1..Len(lines) :
            (lines[s].k \in {"while", "for"}
               /\ PassesAsked(lines[s]) <= Ceiling(lines[s]))
                => passCount[s] = PassesAsked(lines[s]) /\ errCount[s] = 0


----------------------------------------------------------------------------
(* Conditionals with several else lines (interpreter.js 626-695) *)

\* if, then up to three branches in any order of elseif and else, each
\* body one statement: validateCode accepts every order
ChainHeads == {ElseIf("true"), ElseIf("false"), Else}
ChainPrograms ==
    {<<If(c), Log>> \o Concat([j \in 1..Len(hs) |-> <<hs[j], Log>>])
                    \o <<EndIf, Log>> :
        c \in Bools, hs \in SeqsUpTo(ChainHeads, 3)}

ExecuteChain ==
    /\ phase = "idle"
    /\ UNCHANGED unitVars
    /\ \E src \in ChainPrograms : Execute(src)

NextChain ==
    \/ ExecuteChain
    \/ ProcessLine
    \/ ProcessCondition
    \/ Finish

SpecChain == Init /\ [][NextChain]_vars

\* the heads of the branches of conditional s of which a statement ran
BranchesRun(ls, s) ==
    {h \in Heads(ls, s) :
        \E p \in (s + 1)..(Match(ls, s) - 1) :
            IsStatement(ls[p]) /\ BranchOf(ls, s, p) = h /\ execCount[p] > 0}

\* C37: in a program that validateCode accepts, an execution of a
\* conditional runs statements of at most one of its branch bodies, also
\* when the conditional holds more than one else or an elseif after an else
C37_Original ==
    \A s \in 1..Len(lines) :
        IsIf(lines[s]) => Cardinality(BranchesRun(lines, s)) <= 1


----------------------------------------------------------------------------
(* Handlers invoked after exit (interpreter.js 725-760, utils.js 438-474) *)

\* §while[§isEven[2]]: every evaluation of the condition invokes a handler
WhileIsEven == Line("while", "isEven", "", <<>>, <<>>)

\* a loop whose condition holds a nested call and whose body exits, at
\* once or in the pass in which x reaches n
ExitBodies == {<<Exit(1)>>, <<Log, Exit(1)>>, <<Exit(1), Log>>,
               <<If("true"), Exit(3), EndIf>>, <<Log, Break>>}
ExitLoopPrograms ==
    {<<WhileIsEven>> \o b \o <<EndWhile, Log>> : b \in ExitBodies}
    \cup {<<Var("x", 0), WhileIsEven, Inc("x"), IfLt("x", n), Log, Else,
            Exit(1), EndIf, EndWhile, Log>> : n \in 1..MaxEnd}
    \cup {<<For("i", 0, 2), WhileIsEven>> \o b \o <<EndWhile, Log, EndFor>> :
             b \in ExitBodies}

ExecuteExitLoop ==
    /\ phase = "idle"
    /\ UNCHANGED unitVars
    /\ \E src \in ExitLoopPrograms : Execute(src)

NextExitLoop ==
    \/ ExecuteExitLoop
    \/ ProcessLine
    \/ ProcessCondition
    \/ ProcessWhile
    \/ ProcessFor
    \/ Finish

SpecExitLoop == Init /\ [][NextExitLoop]_vars

\* a handler is invoked in the step: a statement runs, or a condition that
\* holds a nested call is evaluated
HandlerInvoked ==
    \/ execCount' # execCount
    \/ \E s \in DOMAIN condCount \cap DOMAIN condCount' :
          lines[s].c = "isEven" /\ condCount'[s] # condCount[s]

\* C38: once the exit flag is set no directive handler is invoked again in
\* the run, the handlers of nested calls in the condition of an enclosing
\* while loop included
C38_Original == [][shouldExit => ~HandlerInvoked]_vars


----------------------------------------------------------------------------
(* Calls that stand after a call that is not rewritten (utils.js 438-468) *)

\* texts of up to MaxTokens whole calls and letters: calls of the
\* unregistered u, of l that returns nothing, of e, g and r
CallPieces == {<<"§", "u", "[", "a", "]">>, <<"§", "l", "[", "a", "]">>,
               <<"§", "e", "[", "a", "]">>, <<"§", "g", "[", "a", "]">>,
               <<"§", "r", "[", "a", "]">>, <<"a">>}
CallTexts == {Concat(ps) : ps \in SeqsUpTo(CallPieces, MaxTokens)}

InitCalls ==
    /\ InitRun
    /\ \E t \in CallTexts :
          call = [fn |-> "evaluateNestedFunctions", text |-> t, result |-> t,
                  iterations |-> 0, invocations |-> 0, turns |-> 0,
                  events |-> <<>>, pc |-> "loop"]
    /\ files = <<>>
    /\ loadedFiles = {}
    /\ reads = <<>>
    /\ resolve = NoResolve
    /\ plugins = <<>>
    /\ functions = <<>>
    /\ instances = <<>>

SpecCalls == InitCalls /\ [][NextExpand]_vars

\* the registered directives whose handler returns a value
ValueReturning == {n \in RegisteredNames : HandlerResult(n, <<>>).defined}

\* the text holds an innermost call of a registered value-returning
\* directive
HoldsOpenCall(t) ==
    \E i \in 1..Len(t) :
        MatchAt(t, i).start # 0 /\ MatchAt(t, i).name \in ValueReturning

\* C39: a call of an unregistered directive, or of a handler that returns
\* no value, that stands earlier in the text does not prevent the
\* expansion of the registered calls after it: when fewer than 10 rewrites
\* were made, the returned text holds no innermost call of a registered
\* value-returning directive
C39_Original ==
    (call.fn = "evaluateNestedFunctions" /\ call.pc = "returned"
       /\ call.iterations < MaxIterations)
        => ~HoldsOpenCall(call.result)


----------------------------------------------------------------------------
(* Assignments to the loop variable of a for loop (interpreter.js 798-843) *)

\* bodies that assign to the loop variable i
LoopVarBodies == {<<Log>>, <<Var("i", 7)>>, <<Inc("i")>>, <<Var("i", 7), Log>>,
                  <<Log, Var("i", 0)>>, <<If("true"), Var("i", 7), EndIf>>}
LoopVarPrograms ==
    {<<For("i", s, e)>> \o b \o <<EndFor, Log>> :
        s \in 0..1, e \in 0..MaxEnd, b \in LoopVarBodies}

ExecuteLoopVar ==
    /\ phase = "idle"
    /\ UNCHANGED unitVars
    /\ \E src \in LoopVarPrograms : Execute(src)

NextLoopVar ==
    \/ ExecuteLoopVar
    \/ ProcessLine
    \/ ProcessCondition
    \/ ProcessFor
    \/ Finish

SpecLoopVar == Init /\ [][NextLoopVar]_vars

\* a pass of the for loop on top of the stack has begun and no statement of
\* it has run yet
PassBegins ==
    /\ phase = "running"
    /\ Top.fn = "for"
    /\ Top.mode = "body"
    /\ Top.idx = Top.start + 1

\* C40: assigning to the loop variable in a for body changes neither the
\* number of passes nor the values bound on later passes: pass k begins
\* with the variable bound to start + k - 1, and the loop makes
\* max(0, end - start) passes
C40_LoopVariableRebound ==
    /\ PassBegins =>
          variables[Top.v]
             = String(ParseFloat(lines[Top.start].a).n
                        + passCount[Top.start] - 1)
    /\ phase = "done" =>
          \A s \in 1..Len(lines) :
              IsFor(lines[s]) => passCount[s] = Max(0, Range(lines[s]))

\* the third pass of a loop from 0 whose body sets i to 7 begins with i = 2
C40_Witness ==
    /\ PassBegins
    /\ lines[Top.start + 1] = Var("i", 7)
    /\ passCount[Top.start] = 3
    /\ variables["i"] = String(2)

====
